---- MODULE Spec2Model ----
(***************************************************************************)
(* ApexBrain strategy decision engine: the criteria calculator, the        *)
(* dynamic weighting, the batch utility ranking and the stochastic         *)
(* candidate generator of core/mcda_engine_v2.py, the Monte-Carlo race     *)
(* simulator of core/strategy/strategy_simulator.py and the lap loop of    *)
(* core/mcda_engine.py.                                                    *)
(*                                                                         *)
(* Python floats are modelled as exact rationals [num, den] in lowest      *)
(* terms with den > 0.  A division by zero yields NaR (den = 0), which     *)
(* every later operation propagates: it stands for the raised              *)
(* ZeroDivisionError.                                                      *)
(***************************************************************************)
EXTENDS Integers, Sequences, FiniteSets, TLC

\* ------------------------------------------------------------------------
\* Exact rational arithmetic
\* ------------------------------------------------------------------------
Abs(x) == IF x < 0 THEN -x ELSE x

RECURSIVE GCD(_, _)
GCD(a, b) == IF b = 0 THEN a ELSE GCD(b, a % b)

NaR == [num |-> 0, den |-> 0]

\* Python's None: what dict.get returns for a key the dict does not have,
\* what a function returns that found nothing, a local not yet assigned
None == [none |-> TRUE]

IsNaR(a) == a.den = 0

Norm(n, d) ==
    IF d = 0 THEN NaR
    ELSE LET g == GCD(Abs(n), Abs(d))
             s == IF d < 0 THEN -1 ELSE 1
         IN  [num |-> s * (n \div g), den |-> s * (d \div g)]

Rat(n, d) == Norm(n, d)

RInt(n) == [num |-> n, den |-> 1]

RAdd(a, b) ==
    IF IsNaR(a) \/ IsNaR(b) THEN NaR
    ELSE LET g == GCD(a.den, b.den)
             l == (a.den \div g) * b.den
         IN  Norm(a.num * (l \div a.den) + b.num * (l \div b.den), l)

RNeg(a) == [num |-> -a.num, den |-> a.den]

RSub(a, b) == RAdd(a, RNeg(b))

RMul(a, b) ==
    IF IsNaR(a) \/ IsNaR(b) THEN NaR
    ELSE LET g1 == GCD(Abs(a.num), b.den)
             g2 == GCD(Abs(b.num), a.den)
         IN  Norm((a.num \div g1) * (b.num \div g2),
                  (a.den \div g2) * (b.den \div g1))

RDiv(a, b) ==
    IF IsNaR(a) \/ IsNaR(b) \/ b.num = 0 THEN NaR
    ELSE RMul(a, Norm(b.den, b.num))

\* a <= b and a < b on rationals (false when either side is NaR)
RLe(a, b) == ~IsNaR(a) /\ ~IsNaR(b) /\ RSub(a, b).num <= 0

RLt(a, b) == ~IsNaR(a) /\ ~IsNaR(b) /\ RSub(a, b).num < 0

\* Python's min(a, b) / max(a, b): the first argument unless the second is
\* strictly smaller / larger
RMin(a, b) == IF RLt(b, a) THEN b ELSE a

RMax(a, b) == IF RLt(a, b) THEN b ELSE a

RECURSIVE RMinSeq(_)
RMinSeq(s) == IF Len(s) = 1 THEN s[1] ELSE RMin(RMinSeq(SubSeq(s, 1, Len(s) - 1)), s[Len(s)])

RECURSIVE RMaxSeq(_)
RMaxSeq(s) == IF Len(s) = 1 THEN s[1] ELSE RMax(RMaxSeq(SubSeq(s, 1, Len(s) - 1)), s[Len(s)])

\* Python's int(x) for x >= 0: truncation
RTrunc(a) == a.num \div a.den

\* ------------------------------------------------------------------------
\* Bounds of the model
\* ------------------------------------------------------------------------
\* n_gen handed to generate_optimal_strategies
NGen == 4

\* longest batch handed to calculate_utility
MaxBatch == 3

\* n_gen of a call whose loops can keep more than five candidates
NGenTop == 6

\* most plans evaluated into one batch before it is ranked
MaxSaved == 2

\* most stints of a plan handed to run_strategy, _calculate_c1_time or
\* calculate_metrics, and the longest stint of such a plan
MaxStints == 2

MaxStintLaps == 2

\* ------------------------------------------------------------------------
\* Parameter structures (CircuitParams, CarParams, EnvParams, TireParams)
\* ------------------------------------------------------------------------
compounds == <<"SOFT", "MEDIUM", "HARD">>

Compounds == {"SOFT", "MEDIUM", "HARD"}

\* Race distances the generator is run on
LapChoices == {12, 16, 20, 24}

\* Structural life (laps) of SOFT, MEDIUM, HARD in each tire table; with the
\* last one no stint split of any race distance is feasible
LifeTables == { <<4, 5, 12>>, <<4, 5, 15>>, <<3, 3, 3>> }

TireParams(pace, deg, life, warmup) ==
    [base_pace |-> pace, deg_per_lap |-> deg, max_life |-> life, warmup_loss |-> warmup]

\* tires_p of the app, with the structural lives of the table
TireTable(lives) ==
    [c \in Compounds |->
        CASE c = "SOFT"   -> TireParams(RInt(0), Rat(12, 100), lives[1], RInt(2))
          [] c = "MEDIUM" -> TireParams(Rat(1, 2), Rat(8, 100), lives[2], RInt(2))
          [] c = "HARD"   -> TireParams(Rat(11, 10), Rat(4, 100), lives[3], RInt(2))]

\* Bahrain of the app's track_db, with the race distance chosen
CircuitParams(laps) ==
    [n_laps |-> laps, base_lap_time |-> RInt(92), pit_loss |-> RInt(22),
     overtake_delta |-> Rat(3, 2), abrasivity |-> RInt(3)]

CarParams(fuel, burn, effect) ==
    [fuel_start_kg |-> fuel, fuel_burn_kg_lap |-> burn, fuel_effect_s_kg |-> effect]

EnvParams(temp, rain, sc, vsc, grid) ==
    [track_temp |-> temp, rain_prob |-> rain, sc_prob |-> sc, vsc_prob |-> vsc,
     grid_position |-> grid]

KFactors(safety, traffic, robust) ==
    [safety |-> safety, traffic |-> traffic, robust |-> robust]

Stint(c, l) == [compound |-> c, laps |-> l]

VARIABLES
    circuit, car, env, tires, k_factors,   \* the engine's fields
    pc,                                    \* position of the operation under way
    iter,                                  \* iterations done of the current loop
    candidates,                            \* candidates list of the generator
    ranked,                                \* what calculate_utility returned
    unique,                                \* the list the generator returns
    shown_weights,                         \* what calculate_dynamic_weights returned
    saved_strategies,                      \* the batch handed to calculate_utility
    reranked,                              \* calculate_utility applied to ranked
    strategy_plan, total_laps,             \* run_strategy: its arguments
    race_times, cumulative_time,           \* run_strategy: its locals
    current_lap,
    stint_sum,                             \* sum of all simulate_stint outputs so far
    stints_run,                            \* stints simulated so far
    plan,                                  \* the plan whose criteria are computed
    stint_idx, c1_time, fuel_kg,           \* _calculate_c1_time: its locals
    lap_in_stint, fuel_load, total_time,   \* calculate_metrics: its locals
    raised,                                \* exception the last call raised, or "none"
    require_compound_change,               \* find_optimal_strategy: env_vars flag
    p1,                                    \* find_optimal_strategy: pit lap of the 1-stop loop
    combo,                                 \*   place in itertools.product(compounds, ...)
    metrics,                               \*   result of the last calculate_metrics
    valid_strategies,                      \*   strategies that passed the risk check
    best,                                  \*   what the function returned
    mc_strategies,                         \* monte_carlo_simulation: strategies
    sim_totals,                            \*   totals of the runs of the last strategy
    mc_results,                            \*   its dict results
    sorted_strats                          \* app: the rows of the Strategy Matrix

engine == <<circuit, car, env, tires, k_factors>>

gen == <<iter, candidates, unique>>

rankv == <<saved_strategies, reranked>>

simv == <<strategy_plan, total_laps, race_times, cumulative_time, current_lap,
          stint_sum, stints_run>>

fuelv == <<plan, stint_idx, c1_time, fuel_kg, lap_in_stint, fuel_load, total_time>>

legacyv == <<require_compound_change, p1, combo, metrics, valid_strategies, best>>

\* the state of the operations that raise nothing
montev == <<mc_strategies, sim_totals, mc_results>>

appv == <<sorted_strats>>

quietv == <<legacyv, montev, appv>>

\* what the operations of the later sections add to the state
extv == <<raised, quietv>>

vars == <<circuit, car, env, tires, k_factors, pc, iter, candidates, ranked, unique,
          shown_weights, saved_strategies, reranked, strategy_plan, total_laps, race_times,
          cumulative_time, current_lap, stint_sum, stints_run, plan, stint_idx,
          c1_time, fuel_kg, lap_in_stint, fuel_load, total_time, raised,
          require_compound_change, p1, combo, metrics, valid_strategies, best,
          mc_strategies, sim_totals, mc_results, sorted_strats>>

\* ------------------------------------------------------------------------
\* format_strategy_string: one part per stint, icon + first letter + (laps)
\* ------------------------------------------------------------------------
FirstLetter(c) ==
    CASE c = "SOFT" -> "S" [] c = "MEDIUM" -> "M" [] c = "HARD" -> "H" [] OTHER -> "?"

Icon(c) ==
    IF c = "SOFT" THEN "red" ELSE IF c = "MEDIUM" THEN "yellow" ELSE "white"

format_strategy_string(strategy_stints) ==
    [i \in 1..Len(strategy_stints) |->
        <<Icon(strategy_stints[i].compound), FirstLetter(strategy_stints[i].compound),
          strategy_stints[i].laps>>]

\* ------------------------------------------------------------------------
\* Criteria calculation
\* ------------------------------------------------------------------------
\* np.sum(lap_times) of one stint: laps = arange(n_laps)
RECURSIVE StintLapSum(_, _, _)
StintLapSum(tire, fuel, n) ==
    IF n <= 0 THEN RInt(0)
    ELSE LET lap    == n - 1
             t_fuel == RMul(RSub(fuel, RMul(RInt(lap), car.fuel_burn_kg_lap)),
                            car.fuel_effect_s_kg)
             t_deg  == RMul(RInt(lap), tire.deg_per_lap)
             lap_time == RAdd(RAdd(RAdd(circuit.base_lap_time, tire.base_pace), t_fuel), t_deg)
         IN  RAdd(StintLapSum(tire, fuel, n - 1), lap_time)

\* fuel at the start of stint idx (1-based): fuel -= n_laps * fuel_burn_kg_lap, unclamped
RECURSIVE FuelBefore(_, _)
FuelBefore(strategy, idx) ==
    IF idx = 1 THEN car.fuel_start_kg
    ELSE RSub(FuelBefore(strategy, idx - 1),
              RMul(RInt(strategy[idx - 1].laps), car.fuel_burn_kg_lap))

\* the pit loss charged before every stint, the first one included
RECURSIVE C1UptoPitEveryStint(_, _)
C1UptoPitEveryStint(strategy, idx) ==
    IF idx = 0 THEN RInt(0)
    ELSE LET stint == strategy[idx]
             tire  == tires[stint.compound]
         IN  RAdd(RAdd(RAdd(C1UptoPitEveryStint(strategy, idx - 1), circuit.pit_loss),
                       tire.warmup_loss),
                  StintLapSum(tire, FuelBefore(strategy, idx), stint.laps))

\* current_time after the first idx stints of the loop of _calculate_c1_time
RECURSIVE C1Upto(_, _)
C1Upto(strategy, idx) ==
    IF idx = 0 THEN RInt(0)
    ELSE LET stint == strategy[idx]
             tire  == tires[stint.compound]
             pit   == IF idx > 1 THEN circuit.pit_loss ELSE RInt(0)
         IN  RAdd(RAdd(RAdd(C1Upto(strategy, idx - 1), pit), tire.warmup_loss),
                  StintLapSum(tire, FuelBefore(strategy, idx), stint.laps))

calculate_c1_time(strategy) == C1Upto(strategy, Len(strategy))

\* the mean of the risk ratios returned, not their maximum
RECURSIVE RatioSum(_, _)
RatioSum(strategy, idx) ==
    IF idx = 0 THEN RInt(0)
    ELSE RAdd(RatioSum(strategy, idx - 1),
              RMul(RDiv(RInt(strategy[idx].laps),
                        RInt(tires[strategy[idx].compound].max_life)),
                   RInt(100)))

C2Average(strategy) == RDiv(RatioSum(strategy, Len(strategy)), RInt(Len(strategy)))

calculate_c2_safety_risk(strategy) ==
    RMaxSeq([i \in 1..Len(strategy) |->
        RMul(RDiv(RInt(strategy[i].laps), RInt(tires[strategy[i].compound].max_life)),
             RInt(100))])

\* the raw score returned without "min(10.0, ...)"
C3Uncapped(strategy) ==
    LET n_stops      == Len(strategy) - 1
        grid_factor  == RDiv(RInt(env.grid_position), RInt(20))
        delta_factor == RDiv(circuit.overtake_delta, Rat(3, 2))
    IN  RAdd(RMul(grid_factor, RInt(2)),
             RMul(RMul(RMul(RInt(n_stops), grid_factor), delta_factor), Rat(5, 2)))

calculate_c3_traffic_score(strategy) ==
    LET n_stops      == Len(strategy) - 1
        grid_factor  == RDiv(RInt(env.grid_position), RInt(20))
        delta_factor == RDiv(circuit.overtake_delta, Rat(3, 2))
        raw_score    == RAdd(RMul(grid_factor, RInt(2)),
                             RMul(RMul(RMul(RInt(n_stops), grid_factor), delta_factor),
                                  Rat(5, 2)))
    IN  RMin(RInt(10), raw_score)

\* the width without "max(0, ...)": a stint beyond 90% of the life counts
\* as a negative margin
RECURSIVE TotalWidthUnclamped(_, _)
TotalWidthUnclamped(strategy, idx) ==
    IF idx = 0 THEN RInt(0)
    ELSE LET limit == RMul(RInt(tires[strategy[idx].compound].max_life), Rat(9, 10))
             width == RSub(limit, RInt(strategy[idx].laps))
         IN  RAdd(TotalWidthUnclamped(strategy, idx - 1), width)

\* total_width after the first idx stints
RECURSIVE TotalWidth(_, _)
TotalWidth(strategy, idx) ==
    IF idx = 0 THEN RInt(0)
    ELSE LET limit == RMul(RInt(tires[strategy[idx].compound].max_life), Rat(9, 10))
             width == RMax(RInt(0), RSub(limit, RInt(strategy[idx].laps)))
         IN  RAdd(TotalWidth(strategy, idx - 1), width)

calculate_c4_flexibility_score(strategy) ==
    LET avg == RDiv(TotalWidth(strategy, Len(strategy)), RInt(Len(strategy)))
    IN  RMin(RInt(10), RMul(RDiv(avg, RInt(15)), RInt(10)))

ZeroScores == [C1 |-> RInt(0), C2 |-> RInt(0), C3 |-> RInt(0), C4 |-> RInt(0)]

evaluate_strategy(strategy_def) ==
    [Name |-> format_strategy_string(strategy_def),
     C1_Time |-> calculate_c1_time(strategy_def),
     C2_Risk |-> calculate_c2_safety_risk(strategy_def),
     C3_Traffic |-> calculate_c3_traffic_score(strategy_def),
     C4_Flex |-> calculate_c4_flexibility_score(strategy_def),
     Stints |-> strategy_def,
     Utility_Score |-> RInt(0),
     Normalized_Scores |-> ZeroScores]

\* "tire = self.tires[comp]" in the stint loop of _calculate_c1_time, the
\* first lookup of an evaluation: a compound that is no key of the table
\* raises KeyError
MissingTire(strategy) ==
    \E i \in 1..Len(strategy) : strategy[i].compound \notin DOMAIN tires

\* the maximum of no ratios taken as 0
MaxOfNoRatiosIsZero(strategy) == FALSE

\* "return max(risk_ratios)" of a plan without stints: max() of an empty
\* list raises ValueError
MaxOfNoRatios(strategy) == strategy = <<>>

\* "avg = total_width / len(strategy)" of a plan without stints
NoStintToAverage(strategy) == Len(strategy) = 0

\* the exception a call of evaluate_strategy ends with, "none" when it
\* returns: c1, c2, c3, c4 are computed in this order
RaisedByEvaluate(strategy_def) ==
    IF MissingTire(strategy_def) THEN "KeyError"
    ELSE IF MaxOfNoRatios(strategy_def) THEN "ValueError"
    ELSE IF NoStintToAverage(strategy_def) THEN "ZeroDivisionError"
    ELSE "none"

\* ------------------------------------------------------------------------
\* Dynamic weighting
\* ------------------------------------------------------------------------
\* the performance anchor lost: w1 = 0
W1Zero == RInt(0)

\* "w1 = 1.0 # Performance Anchor"
W1Anchor == RInt(1)

TotalW(w1, w2, w3, w4) == RAdd(RAdd(RAdd(w1, w2), w3), w4)

calculate_dynamic_weights ==
    LET w1 == W1Anchor
        norm_temp == RDiv(env.track_temp, RInt(60))
        norm_abr  == RDiv(circuit.abrasivity, RInt(5))
        w2 == RMul(RMul(k_factors.safety, norm_temp), norm_abr)
        norm_grid == RDiv(RInt(env.grid_position), RInt(20))
        w3 == RMul(k_factors.traffic, norm_grid)
        chaos_sum == RAdd(RAdd(env.rain_prob, env.sc_prob), env.vsc_prob)
        w4 == RMul(k_factors.robust, chaos_sum)
        total_w == TotalW(w1, w2, w3, w4)
    IN  [alpha_1 |-> RDiv(w1, total_w), alpha_2 |-> RDiv(w2, total_w),
         alpha_3 |-> RDiv(w3, total_w), alpha_4 |-> RDiv(w4, total_w)]

\* ------------------------------------------------------------------------
\* Utility and ranking
\* ------------------------------------------------------------------------
\* the range without its guard: max_t - min_t even when it is zero
RangeTNoGuard(min_t, max_t) == RSub(max_t, min_t)

\* range_t = max_t - min_t if max_t != min_t else 1.0
RangeT(min_t, max_t) == IF max_t # min_t THEN RSub(max_t, min_t) ELSE RInt(1)

\* the risk score without its cap: C2_Risk / 10.0
ScoreRiskUncapped(s, weights, min_t, range_t) ==
    LET c1_score == RMul(RDiv(RSub(s.C1_Time, min_t), range_t), RInt(10))
        c2_score == RDiv(s.C2_Risk, RInt(10))
        c3_score == s.C3_Traffic
        c4_score == s.C4_Flex
        utility  == RSub(RAdd(RAdd(RMul(weights.alpha_1, c1_score),
                                   RMul(weights.alpha_2, c2_score)),
                              RMul(weights.alpha_3, c3_score)),
                         RMul(weights.alpha_4, c4_score))
    IN  [s EXCEPT !.Utility_Score = utility,
                  !.Normalized_Scores =
                      [C1 |-> c1_score, C2 |-> c2_score, C3 |-> c3_score, C4 |-> c4_score]]

\* the flexibility term added like the three costs
ScoreFlexAdded(s, weights, min_t, range_t) ==
    LET c1_score == RMul(RDiv(RSub(s.C1_Time, min_t), range_t), RInt(10))
        c2_score == RMin(RInt(10), RDiv(s.C2_Risk, RInt(10)))
        c3_score == s.C3_Traffic
        c4_score == s.C4_Flex
        utility  == RAdd(RAdd(RAdd(RMul(weights.alpha_1, c1_score),
                                   RMul(weights.alpha_2, c2_score)),
                              RMul(weights.alpha_3, c3_score)),
                         RMul(weights.alpha_4, c4_score))
    IN  [s EXCEPT !.Utility_Score = utility,
                  !.Normalized_Scores =
                      [C1 |-> c1_score, C2 |-> c2_score, C3 |-> c3_score, C4 |-> c4_score]]

\* the traffic term subtracted like the flexibility benefit
ScoreTrafficSubtracted(s, weights, min_t, range_t) ==
    LET c1_score == RMul(RDiv(RSub(s.C1_Time, min_t), range_t), RInt(10))
        c2_score == RMin(RInt(10), RDiv(s.C2_Risk, RInt(10)))
        c3_score == s.C3_Traffic
        c4_score == s.C4_Flex
        utility  == RSub(RSub(RAdd(RMul(weights.alpha_1, c1_score),
                                   RMul(weights.alpha_2, c2_score)),
                              RMul(weights.alpha_3, c3_score)),
                         RMul(weights.alpha_4, c4_score))
    IN  [s EXCEPT !.Utility_Score = utility,
                  !.Normalized_Scores =
                      [C1 |-> c1_score, C2 |-> c2_score, C3 |-> c3_score, C4 |-> c4_score]]

\* the normalized time written over the raw C1_Time
ScoreOverwritesTime(s, weights, min_t, range_t) ==
    LET c1_score == RMul(RDiv(RSub(s.C1_Time, min_t), range_t), RInt(10))
        c2_score == RMin(RInt(10), RDiv(s.C2_Risk, RInt(10)))
        c3_score == s.C3_Traffic
        c4_score == s.C4_Flex
        utility  == RSub(RAdd(RAdd(RMul(weights.alpha_1, c1_score),
                                   RMul(weights.alpha_2, c2_score)),
                              RMul(weights.alpha_3, c3_score)),
                         RMul(weights.alpha_4, c4_score))
    IN  [s EXCEPT !.C1_Time = c1_score,
                  !.Utility_Score = utility,
                  !.Normalized_Scores =
                      [C1 |-> c1_score, C2 |-> c2_score, C3 |-> c3_score, C4 |-> c4_score]]

\* the loop body of calculate_utility: scores and utility of one strategy
Score(s, weights, min_t, range_t) ==
    LET c1_score == RMul(RDiv(RSub(s.C1_Time, min_t), range_t), RInt(10))
        c2_score == RMin(RInt(10), RDiv(s.C2_Risk, RInt(10)))
        c3_score == s.C3_Traffic
        c4_score == s.C4_Flex
        utility  == RSub(RAdd(RAdd(RMul(weights.alpha_1, c1_score),
                                   RMul(weights.alpha_2, c2_score)),
                              RMul(weights.alpha_3, c3_score)),
                         RMul(weights.alpha_4, c4_score))
    IN  [s EXCEPT !.Utility_Score = utility,
                  !.Normalized_Scores =
                      [C1 |-> c1_score, C2 |-> c2_score, C3 |-> c3_score, C4 |-> c4_score]]

\* an unstable insertion: the new entry goes before the entries of equal utility
RECURSIVE InsertBeforeEqual(_, _)
InsertBeforeEqual(sorted, x) ==
    IF sorted = <<>> THEN <<x>>
    ELSE IF RLe(x.Utility_Score, sorted[Len(sorted)].Utility_Score)
         THEN Append(InsertBeforeEqual(SubSeq(sorted, 1, Len(sorted) - 1), x),
                     sorted[Len(sorted)])
         ELSE Append(sorted, x)

\* sorted(results, key=Utility_Score): ascending and stable
RECURSIVE InsertByUtility(_, _)
InsertByUtility(sorted, x) ==
    IF sorted = <<>> THEN <<x>>
    ELSE IF RLt(x.Utility_Score, sorted[Len(sorted)].Utility_Score)
         THEN Append(InsertByUtility(SubSeq(sorted, 1, Len(sorted) - 1), x),
                     sorted[Len(sorted)])
         ELSE Append(sorted, x)

\* the results returned in the order they were scored
Unsorted(results) == results

RECURSIVE SortedByUtility(_)
SortedByUtility(results) ==
    IF results = <<>> THEN <<>>
    ELSE InsertByUtility(SortedByUtility(SubSeq(results, 1, Len(results) - 1)),
                         results[Len(results)])

\* the body of calculate_utility below its first line
ScoredAndSorted(strategies) ==
    LET weights == calculate_dynamic_weights
        c1_raw  == [i \in 1..Len(strategies) |-> strategies[i].C1_Time]
        min_t   == RMinSeq(c1_raw)
        max_t   == RMaxSeq(c1_raw)
        range_t == RangeT(min_t, max_t)
        results == [i \in 1..Len(strategies) |->
                       Score(strategies[i], weights, min_t, range_t)]
    IN  SortedByUtility(results)

\* the function without "if not strategies: return []": min(c1_raw) raises
\* on an empty list and no list is returned
calculate_utility_unguarded(strategies) ==
    IF strategies = <<>> THEN <<"ValueError: min() arg is an empty sequence">>
    ELSE ScoredAndSorted(strategies)

calculate_utility(strategies) ==
    IF strategies = <<>> THEN <<>> ELSE ScoredAndSorted(strategies)

\* ------------------------------------------------------------------------
\* generate_optimal_strategies(n_gen)
\* ------------------------------------------------------------------------
\* "if len(unique) >= 5: break"
TopK == 5

\* the loop over ranked that keeps the first entry of every Name
RECURSIVE UniqueFrom(_, _, _, _)
UniqueFrom(rs, i, seen, acc) ==
    IF i > Len(rs) THEN acc
    ELSE IF rs[i].Name \notin seen
         THEN IF Len(acc) + 1 >= TopK
              THEN Append(acc, rs[i])
              ELSE UniqueFrom(rs, i + 1, seen \cup {rs[i].Name}, Append(acc, rs[i]))
         ELSE UniqueFrom(rs, i + 1, seen, acc)

\* the loop without its break: every first entry of a Name is kept
RECURSIVE UniqueAllFrom(_, _, _, _)
UniqueAllFrom(rs, i, seen, acc) ==
    IF i > Len(rs) THEN acc
    ELSE IF rs[i].Name \notin seen
         THEN UniqueAllFrom(rs, i + 1, seen \cup {rs[i].Name}, Append(acc, rs[i]))
         ELSE UniqueAllFrom(rs, i + 1, seen, acc)

UniqueTopNoBreak(rs) == UniqueAllFrom(rs, 1, {}, <<>>)

\* the loop without the "not in seen" test: the first TopK entries, duplicates kept
UniqueTopNoSeen(rs) == SubSeq(rs, 1, IF Len(rs) < TopK THEN Len(rs) ELSE TopK)

UniqueTop(rs) == UniqueFrom(rs, 1, {}, <<>>)

\* the tire life check missing: every stint length passes
ExceedsLifeNever(c, l) == FALSE

\* the tire life check off by one: a stint one lap beyond max_life passes
ExceedsLifeOffByOne(c, l) == l > tires[c].max_life + 1

\* "if l > self.tires[c].max_life: continue"
ExceedsLife(c, l) == l > tires[c].max_life

\* the minimum-stint check forgetting the last stint
TooShortFirstTwo(l1, l2, l3) == l1 < 5 \/ l2 < 5

\* "if l1 < 5 or l2 < 5 or l3 < 5: continue"
TooShort(l1, l2, l3) == l1 < 5 \/ l2 < 5 \/ l3 < 5

\* the compound check missing: one compound on all three stints passes
TooFewCompoundsNever(c_seq) == FALSE

\* "if len(set(c_seq)) < 2: continue"
TooFewCompounds(c_seq) == Cardinality({c_seq[i] : i \in 1..3}) < 2

\* a loop bound off by one: n_gen // 2 + 1 rounds
AfterRoundOneMore(here, there) ==
    IF iter + 1 > NGen \div 2
    THEN pc' = there /\ iter' = 0
    ELSE pc' = here /\ iter' = iter + 1

\* the position after one more iteration of a loop of n_gen // 2 rounds
AfterRound(here, there) ==
    IF iter + 1 >= NGen \div 2
    THEN pc' = there /\ iter' = 0
    ELSE pc' = here /\ iter' = iter + 1

\* "l1, l2 = pit_lap, total_laps - pit_lap"
OneStopLaps(pit_lap) == <<pit_lap, circuit.n_laps - pit_lap>>

\* the last stint taken as the rest of equal thirds, not of the laps drawn
TwoStopLapsFromThirds(d1, d2) ==
    LET third == RTrunc(RDiv(RInt(circuit.n_laps), RInt(3)))
    IN  <<third + d1, third + d2, circuit.n_laps - 2 * third>>

\* the offsets of the first two stints drawn twice as wide
TwoStopLapsWide(d1, d2) ==
    LET third == RTrunc(RDiv(RInt(circuit.n_laps), RInt(3)))
        l1 == third + 2 * d1
        l2 == third + 2 * d2
    IN  <<l1, l2, circuit.n_laps - l1 - l2>>

\* "l1 = int(total_laps/3) + randint(-5, 5)", l2 alike, "l3 = total_laps - l1 - l2"
TwoStopLaps(d1, d2) ==
    LET third == RTrunc(RDiv(RInt(circuit.n_laps), RInt(3)))
        l1 == third + d1
        l2 == third + d2
    IN  <<l1, l2, circuit.n_laps - l1 - l2>>

\* the candidates list after one round of "1. Generate 1-Stops" that drew
\* pit_lap and the compounds c1, c2
OneStopOutcome(pit_lap, c1, c2) ==
    LET l == OneStopLaps(pit_lap)
    IN  IF ExceedsLife(c1, l[1]) \/ ExceedsLife(c2, l[2])
        THEN candidates
        ELSE Append(candidates, evaluate_strategy(<<Stint(c1, l[1]), Stint(c2, l[2])>>))

\* one round of "1. Generate 1-Stops": random.sample draws two different
\* compounds
OneStopDraw ==
    /\ pc = "one_stop"
    /\ candidates' \in
          {OneStopOutcome(pit_lap, c[1], c[2]) :
              pit_lap \in RTrunc(RMul(RInt(circuit.n_laps), Rat(1, 4)))
                            .. RTrunc(RMul(RInt(circuit.n_laps), Rat(3, 4))),
              c \in {cc \in Compounds \X Compounds : cc[1] # cc[2]}}
    /\ AfterRound("one_stop", "two_stop")
    /\ UNCHANGED <<extv, engine, ranked, unique, shown_weights, rankv, simv, fuelv>>

\* the candidates lists one round of "2. Generate 2-Stops" can leave after
\* drawing the offsets d1, d2: c_seq is drawn only when no stint is too short
TwoStopOutcomes(d1, d2) ==
    LET l == TwoStopLaps(d1, d2)
    IN  IF TooShort(l[1], l[2], l[3])
        THEN {candidates}
        ELSE {IF \/ TooFewCompounds(c_seq)
                 \/ ExceedsLife(c_seq[1], l[1])
                 \/ ExceedsLife(c_seq[2], l[2])
                 \/ ExceedsLife(c_seq[3], l[3])
              THEN candidates
              ELSE Append(candidates,
                          evaluate_strategy(<<Stint(c_seq[1], l[1]),
                                              Stint(c_seq[2], l[2]),
                                              Stint(c_seq[3], l[3])>>)) :
                 c_seq \in [1..3 -> Compounds]}

\* one round of "2. Generate 2-Stops"
TwoStopDraw ==
    /\ pc = "two_stop"
    /\ candidates' \in UNION {TwoStopOutcomes(d1, d2) : d1 \in -5..5, d2 \in -5..5}
    /\ AfterRound("two_stop", "rank")
    /\ UNCHANGED <<extv, engine, ranked, unique, shown_weights, rankv, simv, fuelv>>

\* "ranked = self.calculate_utility(candidates)", the unique loop and the return
RankAndReturn ==
    /\ pc = "rank"
    /\ ranked' = calculate_utility(candidates)
    /\ unique' = UniqueTop(ranked')
    /\ pc' = "done"
    /\ UNCHANGED <<extv, engine, iter, candidates, shown_weights, rankv, simv, fuelv>>

\* the engine of the app's defaults (car_p, env_p, k_factors of app.py)
CarDefault == CarParams(RInt(110), Rat(18, 10), Rat(35, 1000))

EnvDefault == EnvParams(RInt(35), RInt(0), Rat(2, 10), Rat(2, 10), 10)

KDefault == KFactors(RInt(2), RInt(3), Rat(5, 2))

ZeroWeights == [alpha_1 |-> RInt(0), alpha_2 |-> RInt(0), alpha_3 |-> RInt(0),
                alpha_4 |-> RInt(0)]

\* nothing generated, ranked, simulated or evaluated yet
GenIdle == iter = 0 /\ candidates = <<>> /\ unique = <<>>

RankIdle == saved_strategies = <<>> /\ reranked = <<>>

SimIdle ==
    /\ strategy_plan = <<>> /\ total_laps = 0 /\ race_times = <<>>
    /\ cumulative_time = RInt(0) /\ current_lap = 0
    /\ stint_sum = RInt(0) /\ stints_run = 0

FuelIdle ==
    /\ plan = <<>> /\ stint_idx = 0 /\ c1_time = RInt(0) /\ fuel_kg = RInt(0)
    /\ lap_in_stint = 0 /\ fuel_load = RInt(0) /\ total_time = RInt(0)

LegacyIdle ==
    /\ require_compound_change = FALSE /\ p1 = 0 /\ combo = 0
    /\ metrics = None /\ valid_strategies = <<>> /\ best = None

\* a dict without keys
EmptyDict == [name \in {} |-> None]

MonteIdle == mc_strategies = <<>> /\ sim_totals = <<>> /\ mc_results = EmptyDict

AppIdle == sorted_strats = <<>>

ExtIdle == raised = "none" /\ LegacyIdle /\ MonteIdle /\ AppIdle

\* the engine the app builds, on one of the race distances and tire tables
Init ==
    /\ circuit \in {CircuitParams(laps) : laps \in LapChoices}
    /\ tires \in {TireTable(lives) : lives \in LifeTables}
    /\ car = CarDefault
    /\ env = EnvDefault
    /\ k_factors = KDefault
    /\ pc = IF NGen \div 2 > 0 THEN "one_stop" ELSE "rank"
    /\ GenIdle
    /\ ranked = <<>>
    /\ shown_weights = ZeroWeights
    /\ RankIdle /\ SimIdle /\ FuelIdle
    /\ ExtIdle

Next == OneStopDraw \/ TwoStopDraw \/ RankAndReturn

Spec == Init /\ [][Next]_vars

\* the control flow of the function: the rounds of its two loops, then the
\* ranking and the return
Advance ==
    \/ pc = "one_stop" /\ AfterRound("one_stop", "two_stop")
    \/ pc = "two_stop" /\ AfterRound("two_stop", "rank")
    \/ pc = "rank" /\ pc' = "done" /\ iter' = iter

\* the interpreter runs the call to its return: a round of a loop, and the
\* ranking after the loops, always completes (each draw, check and
\* evaluation is a total computation)
SpecLive == Spec /\ WF_<<pc, iter>>(Advance)

\* ------------------------------------------------------------------------
\* calculate_dynamic_weights on its own, as the app calls it on every rerun
\* ------------------------------------------------------------------------
\* non-negative context and bias inputs
TempChoices == {RInt(0), RInt(35), RInt(60)}

AbrasivityChoices == {RInt(0), RInt(3)}

GridChoices == {1, 10, 20}

ProbChoices == {RInt(0), Rat(1, 5), RInt(1)}

BiasChoices == {RInt(0), Rat(1, 10), RInt(5)}

\* "weights = engine.calculate_dynamic_weights()"
ComputeWeights ==
    /\ pc = "weights"
    /\ shown_weights' = calculate_dynamic_weights
    /\ pc' = "weighted"
    /\ UNCHANGED <<extv, engine, gen, ranked, rankv, simv, fuelv>>

InitWeights ==
    /\ circuit \in {[CircuitParams(57) EXCEPT !.abrasivity = a] : a \in AbrasivityChoices}
    /\ tires = TireTable(<<20, 30, 45>>)
    /\ car = CarDefault
    /\ env \in {EnvParams(t, r, sc, vsc, g) :
                    t \in TempChoices, r \in ProbChoices, sc \in ProbChoices,
                    vsc \in ProbChoices, g \in GridChoices}
    /\ k_factors \in {KFactors(a, b, c) :
                          a \in BiasChoices, b \in BiasChoices, c \in BiasChoices}
    /\ pc = "weights"
    /\ shown_weights = ZeroWeights
    /\ ranked = <<>>
    /\ GenIdle /\ RankIdle /\ SimIdle /\ FuelIdle
    /\ ExtIdle

NextWeights == ComputeWeights

SpecWeights == InitWeights /\ [][NextWeights]_vars

\* C2: for non-negative bias and context inputs the four weights are defined
\* (the denominator w1+w2+w3+w4 is not zero), each is >= 0, and they sum to 1.
C2_WeightsNonNegativeSumToOne ==
    pc = "weighted" =>
        /\ \A a \in {shown_weights.alpha_1, shown_weights.alpha_2,
                      shown_weights.alpha_3, shown_weights.alpha_4} :
              ~IsNaR(a) /\ a.num >= 0
        /\ RAdd(RAdd(RAdd(shown_weights.alpha_1, shown_weights.alpha_2),
                      shown_weights.alpha_3), shown_weights.alpha_4) = RInt(1)

\* every input but the anchor is zero: w2 = w3 = w4 = 0 and alpha_1 = 1
C2_Witness ==
    /\ pc = "weighted"
    /\ k_factors = KFactors(RInt(0), RInt(0), RInt(0))
    /\ shown_weights.alpha_1 = RInt(1)

\* ------------------------------------------------------------------------
\* calculate_utility on a batch of evaluated strategies, and on its own result
\* ------------------------------------------------------------------------
\* raw criteria of the batch members: C1_Time, then (C2_Risk, C3_Traffic, C4_Flex)
C1Choices == {RInt(451), RInt(460), RInt(469)}

C234Choices == { <<RInt(25), RInt(1), RInt(0)>>, <<RInt(125), RInt(1), RInt(3)>>,
                 <<RInt(25), Rat(5, 2), RInt(3)>> }

\* what evaluate_strategy returns for the i-th plan of the batch
Evaluated(i, c1, c) ==
    [Name |-> <<i>>, C1_Time |-> c1, C2_Risk |-> c[1], C3_Traffic |-> c[2],
     C4_Flex |-> c[3], Stints |-> <<>>, Utility_Score |-> RInt(0),
     Normalized_Scores |-> ZeroScores]

Batches ==
    UNION {{[i \in 1..n |-> Evaluated(i, f[i][1], f[i][2])] :
              f \in [1..n -> C1Choices \X C234Choices]} : n \in 0..MaxBatch}

\* "saved_strategies = engine.calculate_utility(saved_strategies)"
RankBatch ==
    /\ pc = "rank_batch"
    /\ ranked' = calculate_utility(saved_strategies)
    /\ pc' = "ranked"
    /\ UNCHANGED <<extv, engine, gen, shown_weights, rankv, simv, fuelv>>

\* the same call on the batch it returned
RankAgain ==
    /\ pc = "ranked"
    /\ reranked' = calculate_utility(ranked)
    /\ pc' = "reranked"
    /\ UNCHANGED <<extv, engine, gen, ranked, shown_weights, saved_strategies, simv, fuelv>>

InitRank ==
    /\ circuit = CircuitParams(57)
    /\ tires = TireTable(<<20, 30, 45>>)
    /\ car = CarDefault
    /\ env = EnvDefault
    /\ k_factors \in {KDefault, KFactors(RInt(0), RInt(0), RInt(0))}
    /\ pc = "rank_batch"
    /\ saved_strategies \in Batches
    /\ reranked = <<>>
    /\ ranked = <<>>
    /\ shown_weights = ZeroWeights
    /\ GenIdle /\ SimIdle /\ FuelIdle
    /\ ExtIdle

NextRank == RankBatch \/ RankAgain

SpecRank == InitRank /\ [][NextRank]_vars

Ranked == pc \in {"ranked", "reranked"}

AllC1Equal(batch) == \A i, j \in 1..Len(batch) : batch[i].C1_Time = batch[j].C1_Time

NonDecreasing(rs) ==
    \A i \in 1..Len(rs) - 1 : RLe(rs[i].Utility_Score, rs[i + 1].Utility_Score)

\* C3: the list calculate_utility returns for a non-empty batch has
\* Utility_Score values that never decrease along the list.
C3_UtilityNonDecreasing == Ranked => NonDecreasing(ranked)

\* a batch whose order the ranking changed, with distinct utilities
C3_Witness ==
    /\ Ranked
    /\ Len(ranked) >= 2
    /\ ranked[1].Name # saved_strategies[1].Name
    /\ RLt(ranked[1].Utility_Score, ranked[Len(ranked)].Utility_Score)

\* C4: when all C1 values of a non-empty batch are equal (a singleton
\* included) no division by zero happens, every member gets normalized
\* C1 = 0, and its utility, hence the order, is that of C2, C3 and C4 alone.
C4_EqualC1NormalizesToZero ==
    (Ranked /\ AllC1Equal(saved_strategies)) =>
        /\ Len(ranked) = Len(saved_strategies)
        /\ \A i \in 1..Len(ranked) :
              /\ ranked[i].Normalized_Scores.C1 = RInt(0)
              /\ ~IsNaR(ranked[i].Utility_Score)
              /\ ranked[i].Utility_Score =
                    RSub(RAdd(RMul(calculate_dynamic_weights.alpha_2,
                                   RMin(RInt(10), RDiv(ranked[i].C2_Risk, RInt(10)))),
                              RMul(calculate_dynamic_weights.alpha_3, ranked[i].C3_Traffic)),
                         RMul(calculate_dynamic_weights.alpha_4, ranked[i].C4_Flex))
        /\ NonDecreasing(ranked)

\* two or more strategies of one C1 value, reordered by their other criteria
C4_Witness ==
    /\ Ranked
    /\ Len(saved_strategies) >= 2
    /\ AllC1Equal(saved_strategies)
    /\ ranked[1].Name # saved_strategies[1].Name

\* the least and the greatest C1_Time of a batch
LeastC1(batch) ==
    CHOOSE x \in {batch[i].C1_Time : i \in 1..Len(batch)} :
        \A i \in 1..Len(batch) : RLe(x, batch[i].C1_Time)

GreatestC1(batch) ==
    CHOOSE x \in {batch[i].C1_Time : i \in 1..Len(batch)} :
        \A i \in 1..Len(batch) : RLe(batch[i].C1_Time, x)

\* C15: every member of a ranked batch has
\* Utility = alpha_1*normC1 + alpha_2*normC2 + alpha_3*C3 - alpha_4*C4 with
\* normC1 = (C1 - min C1)/(max C1 - min C1)*10 (0 when all C1 are equal, the
\* case of C4), normC2 = min(10, C2/10) and C3, C4 raw: C4 is the one term
\* that lowers the utility.
C15_UtilityIsWeightedCostSum ==
    Ranked =>
        \A i \in 1..Len(ranked) :
           LET r  == ranked[i]
               n  == r.Normalized_Scores
               lo == LeastC1(saved_strategies)
               hi == GreatestC1(saved_strategies)
               w  == calculate_dynamic_weights
           IN  /\ RMul(n.C1, RSub(hi, lo)) =
                     IF hi = lo THEN RInt(0) ELSE RMul(RSub(r.C1_Time, lo), RInt(10))
               /\ hi = lo => n.C1 = RInt(0)
               /\ n.C2 = (IF RLt(RInt(100), r.C2_Risk) THEN RInt(10)
                                                       ELSE RDiv(r.C2_Risk, RInt(10)))
               /\ RAdd(r.Utility_Score, RMul(w.alpha_4, r.C4_Flex)) =
                     RAdd(RAdd(RMul(w.alpha_1, n.C1), RMul(w.alpha_2, n.C2)),
                          RMul(w.alpha_3, r.C3_Traffic))

\* a ranked batch of three C1 values whose middle member is normalized to 5,
\* with a member of capped risk and a member whose flexibility puts its
\* utility below the sum of its three cost terms
C15_Witness ==
    /\ Ranked
    /\ Len(ranked) = 3
    /\ \E i \in 1..3 : ranked[i].Normalized_Scores.C1 = RInt(5)
    /\ \E i \in 1..3 : RLt(RInt(100), ranked[i].C2_Risk)
                         /\ ranked[i].Normalized_Scores.C2 = RInt(10)
    /\ \E i \in 1..3 :
          /\ RLt(RInt(0), ranked[i].C4_Flex)
          /\ RLt(ranked[i].Utility_Score,
                 RAdd(RAdd(RMul(calculate_dynamic_weights.alpha_1,
                                ranked[i].Normalized_Scores.C1),
                           RMul(calculate_dynamic_weights.alpha_2,
                                ranked[i].Normalized_Scores.C2)),
                      RMul(calculate_dynamic_weights.alpha_3, ranked[i].C3_Traffic)))

\* C14: calculate_utility on an empty batch returns an empty list, raising
\* nothing, and so does the same call on that result.
C14_EmptyBatchReturnsEmpty ==
    (Ranked /\ saved_strategies = <<>>) =>
        ranked = <<>> /\ (pc = "reranked" => reranked = <<>>)

\* the empty batch was ranked, and its result ranked again
C14_Witness == pc = "reranked" /\ saved_strategies = <<>> /\ ranked = <<>>

\* what calculate_utility leaves alone in a member of the batch
RawOf(s) ==
    [Name |-> s.Name, Stints |-> s.Stints, C1_Time |-> s.C1_Time, C2_Risk |-> s.C2_Risk,
     C3_Traffic |-> s.C3_Traffic, C4_Flex |-> s.C4_Flex]

\* output is input reordered: the members correspond one to one, each with
\* the same keys and the same raw values
SameMembers(output, input) ==
    /\ Len(output) = Len(input)
    /\ \E f \in [1..Len(input) -> 1..Len(input)] :
          /\ \A i, j \in 1..Len(input) : f[i] = f[j] => i = j
          /\ \A i \in 1..Len(input) :
                /\ DOMAIN output[i] = DOMAIN input[f[i]]
                /\ RawOf(output[i]) = RawOf(input[f[i]])

\* C26: calculate_utility returns the batch it was given, reordered: no
\* member lost, added or duplicated, and of each member only Utility_Score
\* and Normalized_Scores differ; Name, Stints and the raw C1_Time, C2_Risk,
\* C3_Traffic, C4_Flex are those of the input.
C26_SameBatchOnlyScoresChange ==
    /\ Ranked => SameMembers(ranked, saved_strategies)
    /\ pc = "reranked" => SameMembers(reranked, ranked)

\* a batch of three was reordered and the placeholder utility and scores of
\* its members were replaced
C26_Witness ==
    /\ pc = "ranked"
    /\ Len(ranked) = 3
    /\ ranked[1].Name # saved_strategies[1].Name
    /\ \A i \in 1..3 : ranked[i].Utility_Score # RInt(0)
    /\ \E i \in 1..3 : ranked[i].Normalized_Scores # ZeroScores

\* C5: calculate_utility applied to the batch it returned gives the same
\* Utility_Score and Normalized_Scores for every member, in the same order.
C5_RankIdempotent == pc = "reranked" => reranked = ranked

\* a re-ranked batch that the first ranking reordered and that holds a tie
C5_Witness ==
    /\ pc = "reranked"
    /\ Len(ranked) >= 3
    /\ ranked[1].Name # saved_strategies[1].Name
    /\ \E i \in 1..Len(ranked) - 1 : ranked[i].Utility_Score = ranked[i + 1].Utility_Score

\* ------------------------------------------------------------------------
\* StrategyOracle: simulate_stint and run_strategy
\* ------------------------------------------------------------------------
FUEL_CORRECTION == Rat(35, 1000)

PIT_LOSS == Rat(45, 2)

CompoundProfile(pace, deg, life) == [base_pace |-> pace, deg_per_lap |-> deg, max_life |-> life]

oracle_compounds ==
    [c \in Compounds |->
        CASE c = "SOFT"   -> CompoundProfile(RInt(0), Rat(12, 100), 20)
          [] c = "MEDIUM" -> CompoundProfile(Rat(6, 10), Rat(8, 100), 35)
          [] c = "HARD"   -> CompoundProfile(Rat(11, 10), Rat(4, 100), 55)]

\* str.upper() on the compound names plans are written with
Upper(name) ==
    CASE name = "soft" -> "SOFT" [] name = "medium" -> "MEDIUM" [] name = "hard" -> "HARD"
      [] OTHER -> name

\* the lookup falling back on the HARD profile for a name it does not have
oracle_get_or_hard(compound) ==
    IF Upper(compound) \in DOMAIN oracle_compounds
    THEN oracle_compounds[Upper(compound)]
    ELSE oracle_compounds["HARD"]

\* "c = self.compounds.get(compound.upper())"
oracle_get(compound) ==
    IF Upper(compound) \in DOMAIN oracle_compounds
    THEN oracle_compounds[Upper(compound)]
    ELSE None

\* "if not c: raise ValueError(...)"
UnknownCompound(compound) == oracle_get(compound) = None

\* tyre_age ** 1.3, to four decimals (ages beyond 5 lie outside MaxStintLaps)
Pow13(age) ==
    CASE age = 0 -> RInt(0)
      [] age = 1 -> RInt(1)
      [] age = 2 -> Rat(24623, 10000)
      [] age = 3 -> Rat(41712, 10000)
      [] age = 4 -> Rat(60629, 10000)
      [] OTHER   -> Rat(81033, 10000)

\* draws of np.random.normal(0, driver_sigma) for one lap
NoiseChoices == {Rat(-1, 5), RInt(0), Rat(1, 5)}

\* stint_times = base_times + deg_penalty - fuel_gain + noise, start_tyre_age = 0
simulate_stint(compound, laps, noise) ==
    LET c == oracle_get(compound)
    IN  [k \in 1..laps |->
            LET lap_index   == k - 1
                tyre_age    == lap_index + 0
                deg_penalty == RMul(c.deg_per_lap, Pow13(tyre_age))
                fuel_gain   == RMul(FUEL_CORRECTION, RInt(lap_index))
                base_time   == RAdd(RInt(90), c.base_pace)
            IN  RAdd(RSub(RAdd(base_time, deg_penalty), fuel_gain), noise[k])]

RECURSIVE RSum(_)
RSum(ts) == IF ts = <<>> THEN RInt(0) ELSE RAdd(RSum(SubSeq(ts, 1, Len(ts) - 1)), ts[Len(ts)])

\* "stint_times[0] += self.PIT_LOSS"
WithPitOnFirstLap(stint_times) == [stint_times EXCEPT ![1] = RAdd(@, PIT_LOSS)]

\* one iteration of the loop of run_strategy; the function returns when the
\* race distance is covered or the plan is exhausted, and ends with the
\* ValueError of simulate_stint when the compound of the stint is unknown
RunStint ==
    /\ pc = "sim"
    /\ stints_run < Len(strategy_plan)
    /\ LET i == stints_run
           compound == strategy_plan[i + 1][1]
           stint_length ==
               IF current_lap + strategy_plan[i + 1][2] > total_laps
               THEN total_laps - current_lap
               ELSE strategy_plan[i + 1][2]
       IN  IF UnknownCompound(compound)
           THEN /\ raised' = "ValueError"
                /\ pc' = "sim_raised"
                /\ UNCHANGED <<race_times, cumulative_time, current_lap, stint_sum,
                               stints_run>>
           ELSE \E noise \in [1..stint_length -> NoiseChoices] :
              LET simulated == simulate_stint(compound, stint_length, noise)
                  stint_times == IF i > 0 THEN WithPitOnFirstLap(simulated) ELSE simulated
                  pit == IF i > 0 THEN PIT_LOSS ELSE RInt(0)
              IN  /\ race_times' = race_times \o stint_times
                  /\ cumulative_time' = RAdd(RAdd(cumulative_time, pit), RSum(stint_times))
                  /\ current_lap' = current_lap + stint_length
                  /\ stint_sum' = RAdd(stint_sum, RSum(simulated))
                  /\ stints_run' = stints_run + 1
                  /\ pc' = IF current_lap + stint_length >= total_laps
                              \/ stints_run + 1 = Len(strategy_plan)
                           THEN "sim_done" ELSE "sim"
                  /\ raised' = raised
    /\ UNCHANGED <<quietv, engine, gen, ranked, shown_weights, rankv, strategy_plan,
                   total_laps, fuelv>>

\* plans in the documented format [(compound, laps to run), ...]
SimPlans ==
    UNION {[1..n -> Compounds \X (1..MaxStintLaps)] : n \in 1..MaxStints}

InitSim ==
    /\ circuit = CircuitParams(57)
    /\ tires = TireTable(<<20, 30, 45>>)
    /\ car = CarDefault
    /\ env = EnvDefault
    /\ k_factors = KDefault
    /\ pc = "sim"
    /\ strategy_plan \in SimPlans
    /\ total_laps \in 1..(MaxStints * MaxStintLaps)
    /\ race_times = <<>>
    /\ cumulative_time = RInt(0)
    /\ current_lap = 0
    /\ stint_sum = RInt(0)
    /\ stints_run = 0
    /\ ranked = <<>>
    /\ shown_weights = ZeroWeights
    /\ GenIdle /\ RankIdle /\ FuelIdle
    /\ ExtIdle

NextSim == RunStint

SpecSim == InitSim /\ [][NextSim]_vars

\* C8: the total race time run_strategy returns is the sum of the simulated
\* stint lap times plus one PIT_LOSS per pit stop (stints run minus one).
C8_OnePitLossPerStop ==
    pc = "sim_done" =>
        cumulative_time = RAdd(stint_sum, RMul(RInt(stints_run - 1), PIT_LOSS))

\* ------------------------------------------------------------------------
\* Fuel mass in the deterministic lap-time loops
\* ------------------------------------------------------------------------
\* StrategyMCDA.tyre_specs
tyre_specs ==
    [c \in Compounds |->
        CASE c = "SOFT"   -> [deg |-> Rat(12, 100), life |-> 20, pace_advantage |-> RInt(0)]
          [] c = "MEDIUM" -> [deg |-> Rat(8, 100), life |-> 30, pace_advantage |-> Rat(1, 2)]
          [] c = "HARD"   -> [deg |-> Rat(4, 100), life |-> 45, pace_advantage |-> Rat(11, 10)]]

\* env_vars of calculate_metrics; total_laps is the race distance
env_vars ==
    [base_time |-> RInt(90), pit_cost |-> RInt(22), fuel_effect |-> Rat(35, 1000),
     grid_pos |-> 10]

\* "fuel_load = 110.0"
LegacyFuelLoad == RInt(110)

\* one iteration of the stint loop of _calculate_c1_time
C1Stint ==
    /\ pc = "c1_time"
    /\ stint_idx < Len(plan)
    /\ LET stint == plan[stint_idx + 1]
           tire  == tires[stint.compound]
           pit   == IF stint_idx > 0 THEN circuit.pit_loss ELSE RInt(0)
       IN  /\ c1_time' = RAdd(RAdd(RAdd(c1_time, pit), tire.warmup_loss),
                              StintLapSum(tire, fuel_kg, stint.laps))
           /\ fuel_kg' = RSub(fuel_kg, RMul(RInt(stint.laps), car.fuel_burn_kg_lap))
    /\ stint_idx' = stint_idx + 1
    /\ pc' = IF stint_idx + 1 = Len(plan) THEN "c1_done" ELSE "c1_time"
    /\ UNCHANGED <<extv, engine, gen, ranked, shown_weights, rankv, simv, plan,
                   lap_in_stint, fuel_load, total_time>>

\* one iteration of the lap loop of calculate_metrics, with the pit stop
\* cost that precedes the first lap of a stint
MetricsLap ==
    /\ pc = "metrics"
    /\ stint_idx < Len(plan)
    /\ LET stint == plan[stint_idx + 1]
           spec  == tyre_specs[stint.compound]
           fuel_burn == RDiv(RInt(110), RInt(total_laps))
           pit_cost  == IF lap_in_stint = 0 /\ current_lap > 0
                        THEN env_vars.pit_cost ELSE RInt(0)
           fuel_penalty == RMul(fuel_load, env_vars.fuel_effect)
           tire_penalty == RMul(RInt(lap_in_stint), spec.deg)
           lap_time == RAdd(RAdd(RAdd(env_vars.base_time, spec.pace_advantage),
                                 fuel_penalty), tire_penalty)
           last_lap == lap_in_stint + 1 = stint.laps
       IN  /\ total_time' = RAdd(RAdd(total_time, pit_cost), lap_time)
           /\ fuel_load' = RSub(fuel_load, fuel_burn)
           /\ current_lap' = current_lap + 1
           /\ lap_in_stint' = IF last_lap THEN 0 ELSE lap_in_stint + 1
           /\ stint_idx' = IF last_lap THEN stint_idx + 1 ELSE stint_idx
           /\ pc' = IF last_lap /\ stint_idx + 1 = Len(plan) THEN "metrics_done" ELSE "metrics"
    /\ UNCHANGED <<extv, engine, gen, ranked, shown_weights, rankv, strategy_plan, total_laps,
                   race_times, cumulative_time, stint_sum, stints_run, plan, c1_time,
                   fuel_kg>>

\* plans of stints of at least one lap
FuelPlans ==
    UNION {[1..n -> {Stint(c, l) : c \in Compounds, l \in 1..MaxStintLaps}] :
              n \in 1..MaxStints}

\* starting fuel (kg) and burn (kg per lap) of the car
FuelStartChoices == {RInt(3), RInt(110)}

FuelBurnChoices == {Rat(18, 10), RInt(0)}

InitFuel ==
    /\ circuit = CircuitParams(57)
    /\ tires = TireTable(<<20, 30, 45>>)
    /\ car \in {CarParams(f, b, Rat(35, 1000)) : f \in FuelStartChoices, b \in FuelBurnChoices}
    /\ env = EnvDefault
    /\ k_factors = KDefault
    /\ pc \in {"c1_time", "metrics"}
    /\ plan \in FuelPlans
    /\ stint_idx = 0
    /\ c1_time = RInt(0)
    /\ fuel_kg = car.fuel_start_kg
    /\ lap_in_stint = 0
    /\ fuel_load = LegacyFuelLoad
    /\ total_time = RInt(0)
    /\ strategy_plan = <<>>
    /\ total_laps \in 1..(MaxStints * MaxStintLaps)
    /\ race_times = <<>> /\ cumulative_time = RInt(0) /\ current_lap = 0
    /\ stint_sum = RInt(0) /\ stints_run = 0
    /\ ranked = <<>>
    /\ shown_weights = ZeroWeights
    /\ GenIdle /\ RankIdle
    /\ ExtIdle

NextFuel == C1Stint \/ MetricsLap

SpecFuel == InitFuel /\ [][NextFuel]_vars

\* C9: the fuel mass carried in the lap-time loops never becomes negative
\* (it is clamped at 0), whatever the starting fuel, burn and plan length.
C9_FuelNeverNegative == fuel_kg.num >= 0 /\ fuel_load.num >= 0

\* ------------------------------------------------------------------------
\* Properties of the candidate generator
\* ------------------------------------------------------------------------
Returned == {unique[i] : i \in 1..Len(unique)}

\* every strategy the generator has accepted so far, and every one it returns
Accepted == {candidates[i] : i \in 1..Len(candidates)} \cup Returned

StintsOf(s) == {s.Stints[j] : j \in 1..Len(s.Stints)}

RECURSIVE LapSum(_, _)
LapSum(stints, idx) == IF idx = 0 THEN 0 ELSE LapSum(stints, idx - 1) + stints[idx].laps

\* C1: no strategy the generator accepts, hence none it returns, has a stint
\* longer than the max_life of the stint's compound.
C1_NoStintBeyondMaxLife ==
    \A s \in Accepted : \A st \in StintsOf(s) : st.laps <= tires[st.compound].max_life

\* a returned strategy runs a compound for exactly its max_life, and some draw
\* of the run was rejected
C1_Witness ==
    /\ pc = "done"
    /\ Len(candidates) < 2 * (NGen \div 2)
    /\ \E s \in Returned : \E st \in StintsOf(s) : st.laps = tires[st.compound].max_life

\* C6: the stint lap counts of every strategy the generator accepts, hence
\* of every one it returns, 1-stop or 2-stop, sum to the circuit's total
\* lap count.
C6_LapsSumToRaceDistance ==
    \A s \in Accepted : LapSum(s.Stints, Len(s.Stints)) = circuit.n_laps

\* a 1-stop and a 2-stop strategy are both returned
C6_Witness ==
    /\ pc = "done"
    /\ \E s \in Returned : Len(s.Stints) = 2
    /\ \E s \in Returned : Len(s.Stints) = 3

\* C7 as claimed: no returned strategy, 1-stop or 2-stop, has a stint of
\* fewer than 5 laps, for any total lap count.
C7_NoShortStintAnyTopology ==
    pc = "done" => \A s \in Returned : \A st \in StintsOf(s) : st.laps >= 5

\* C7 as amended: no returned 2-stop strategy has a stint of fewer than 5
\* laps; a returned 1-stop strategy has none when the race has at least 20
\* laps (its stints are bounded by the 25%-75% pit window only).
C7_NoShortStintTwoStop ==
    \A s \in Accepted :
        (Len(s.Stints) = 3 \/ circuit.n_laps >= 20) =>
            \A st \in StintsOf(s) : st.laps >= 5

\* in a 20-lap race, after a draw was discarded, a 2-stop and a 1-stop
\* strategy are returned that each have a stint of exactly 5 laps
C7_Witness ==
    /\ pc = "done"
    /\ circuit.n_laps = 20
    /\ Len(candidates) < 2 * (NGen \div 2)
    /\ \E s \in Returned : Len(s.Stints) = 3 /\ \E st \in StintsOf(s) : st.laps = 5
    /\ \E s \in Returned : Len(s.Stints) = 2 /\ \E st \in StintsOf(s) : st.laps = 5

\* draw attempts made so far by the two loops of n_gen // 2 rounds
Attempts ==
    CASE pc = "one_stop" -> iter
      [] pc = "two_stop" -> NGen \div 2 + iter
      [] OTHER           -> 2 * (NGen \div 2)

\* C12: the generator makes a fixed number of draw attempts, at most n_gen;
\* a rejected draw is skipped, never retried, so at most one candidate per
\* attempt is kept, and the function returns for every parameter set, also
\* one where no draw is feasible.
C12_FixedAttemptsTerminates ==
    /\ [](Len(candidates) <= Attempts /\ Attempts <= NGen)
    /\ [][(pc \in {"one_stop", "two_stop"} => Attempts' = (Attempts + 1))]_vars
    /\ <>(pc = "done")

\* the function returned fewer strategies than attempts made, yet some
C12_Witness ==
    /\ pc = "done"
    /\ Len(candidates) > 0
    /\ Len(candidates) < 2 * (NGen \div 2)
    /\ Len(unique) = Len(candidates)

\* no stint split passes the checks: every compound lasts fewer than 5 laps
\* and less than half the race
Infeasible ==
    \A c \in Compounds : tires[c].max_life < 5 /\ 2 * tires[c].max_life < circuit.n_laps

\* C13: with a fully infeasible parameter set every draw is rejected, the
\* batch handed to the ranking is empty, and the generator returns an empty
\* list (no exception: the result is a list, not an error value).
C13_InfeasibleReturnsEmpty ==
    Infeasible => candidates = <<>> /\ ranked = <<>> /\ unique = <<>>

\* the generator has returned on an infeasible parameter set
C13_Witness == pc = "done" /\ Infeasible /\ unique = <<>>

\* the compounds a strategy runs
CompoundsOf(s) == {st.compound : st \in StintsOf(s)}

\* C25: every strategy the generator accepts, hence every one it returns,
\* uses at least two different compounds: the two compounds of a 1-stop
\* strategy differ, and a 2-stop strategy never runs one compound on all
\* three stints.
C25_AtLeastTwoCompounds ==
    \A s \in Accepted :
        /\ Cardinality(CompoundsOf(s)) >= 2
        /\ Len(s.Stints) = 2 => s.Stints[1].compound # s.Stints[2].compound

\* a 1-stop strategy is returned, and a 2-stop strategy that runs one
\* compound on two of its three stints
C25_Witness ==
    /\ pc = "done"
    /\ \E s \in Returned : Len(s.Stints) = 2
    /\ \E s \in Returned : Len(s.Stints) = 3 /\ Cardinality(CompoundsOf(s)) = 2

\* int(total_laps / 3)
Third == circuit.n_laps \div 3

\* C28 as claimed: all three stints of every 2-stop candidate lie within 5
\* laps of int(total_laps / 3).
C28_AllStintsWithinFiveOfThird ==
    \A s \in Accepted :
        Len(s.Stints) = 3 =>
            \A st \in StintsOf(s) : Abs(st.laps - Third) <= 5

\* C28 as amended: the first two stints of every 2-stop candidate, drawn or
\* accepted, lie within 5 laps of int(total_laps / 3); the third stint is
\* the rest of the race distance, which lies within 10 + total_laps % 3 laps
\* of it.
C28_FirstTwoWithinFiveThirdIsRest ==
    /\ \A d1 \in -5..5, d2 \in -5..5 :
          LET l == TwoStopLaps(d1, d2)
          IN  /\ Abs(l[1] - Third) <= 5 /\ Abs(l[2] - Third) <= 5
              /\ l[3] = circuit.n_laps - l[1] - l[2]
              /\ Abs(l[3] - Third) <= 10 + (circuit.n_laps % 3)
    /\ \A s \in Accepted :
          Len(s.Stints) = 3 =>
             /\ Abs(s.Stints[1].laps - Third) <= 5
             /\ Abs(s.Stints[2].laps - Third) <= 5
             /\ s.Stints[3].laps = circuit.n_laps - s.Stints[1].laps - s.Stints[2].laps
             /\ Abs(s.Stints[3].laps - Third) <= 10 + (circuit.n_laps % 3)

\* a 2-stop strategy is returned whose last stint lies more than 5 laps from
\* the third of the race distance
C28_Witness ==
    /\ pc = "done"
    /\ \E s \in Returned : Len(s.Stints) = 3 /\ Abs(s.Stints[3].laps - Third) > 5

\* ------------------------------------------------------------------------
\* The end of generate_optimal_strategies(NGenTop): the candidates kept by
\* the two loops are ranked and the unique top of the ranking is returned
\* ------------------------------------------------------------------------
\* plans that pass the checks of the 1-stop loop, and of the 2-stop loop, in
\* a race of 20 laps on the tires of the app
OneStopPool ==
    { <<Stint("SOFT", 8), Stint("HARD", 12)>>,
      <<Stint("MEDIUM", 10), Stint("HARD", 10)>>,
      <<Stint("HARD", 12), Stint("SOFT", 8)>> }

TwoStopPool ==
    { <<Stint("SOFT", 5), Stint("MEDIUM", 5), Stint("HARD", 10)>>,
      <<Stint("SOFT", 6), Stint("MEDIUM", 7), Stint("MEDIUM", 7)>>,
      <<Stint("MEDIUM", 6), Stint("HARD", 8), Stint("SOFT", 6)>> }

\* a plan that a round of the 1-stop loop can draw and keep
PassesOneStop(p) ==
    /\ Len(p) = 2
    /\ p[1].laps \in RTrunc(RMul(RInt(circuit.n_laps), Rat(1, 4)))
                      .. RTrunc(RMul(RInt(circuit.n_laps), Rat(3, 4)))
    /\ <<p[1].laps, p[2].laps>> = OneStopLaps(p[1].laps)
    /\ p[1].compound # p[2].compound
    /\ ~ExceedsLife(p[1].compound, p[1].laps)
    /\ ~ExceedsLife(p[2].compound, p[2].laps)

\* a plan that a round of the 2-stop loop can draw and keep
PassesTwoStop(p) ==
    /\ Len(p) = 3
    /\ \E d1 \in -5..5 : \E d2 \in -5..5 :
          <<p[1].laps, p[2].laps, p[3].laps>> = TwoStopLaps(d1, d2)
    /\ ~TooShort(p[1].laps, p[2].laps, p[3].laps)
    /\ ~TooFewCompounds([i \in 1..3 |-> p[i].compound])
    /\ \A i \in 1..3 : ~ExceedsLife(p[i].compound, p[i].laps)

\* what the rounds of one loop can keep: any plans of the pool, repeated or
\* not, at most one per round
KeptBy(pool) == UNION {[1..k -> pool] : k \in 0..(NGenTop \div 2)}

\* the evaluated candidates a loop appends for the plans it keeps
Evaluations(kept) == [i \in 1..Len(kept) |-> evaluate_strategy(kept[i])]

\* the 1-stop loop of a call with n_gen = NGenTop, its draws taken from the
\* pool: every kept plan is evaluated and appended
OneStopLoop ==
    /\ pc = "one_stop_loop"
    /\ candidates' \in {candidates \o Evaluations(kept) :
                            kept \in KeptBy({p \in OneStopPool : PassesOneStop(p)})}
    /\ pc' = "two_stop_loop"
    /\ UNCHANGED <<extv, engine, iter, ranked, unique, shown_weights, rankv, simv, fuelv>>

\* the 2-stop loop of the same call
TwoStopLoop ==
    /\ pc = "two_stop_loop"
    /\ candidates' \in {candidates \o Evaluations(kept) :
                            kept \in KeptBy({p \in TwoStopPool : PassesTwoStop(p)})}
    /\ pc' = "rank"
    /\ UNCHANGED <<extv, engine, iter, ranked, unique, shown_weights, rankv, simv, fuelv>>

\* the engine of the app on a race of 20 laps, the call not yet begun
InitTop ==
    /\ circuit = CircuitParams(20)
    /\ tires = TireTable(<<20, 30, 45>>)
    /\ car = CarDefault
    /\ env = EnvDefault
    /\ k_factors = KDefault
    /\ pc = "one_stop_loop"
    /\ GenIdle
    /\ ranked = <<>>
    /\ shown_weights = ZeroWeights
    /\ RankIdle /\ SimIdle /\ FuelIdle
    /\ ExtIdle

NextTop == OneStopLoop \/ TwoStopLoop \/ RankAndReturn

SpecTop == InitTop /\ [][NextTop]_vars

NamesOf(rs) == {rs[i].Name : i \in 1..Len(rs)}

\* C11 as claimed: the list is cut to the budget K the caller supplies, so
\* for every budget K from 1 to the default 5 the result has at most K
\* entries.
C11_TruncatedToCallerBudget ==
    pc = "done" => \A k_top \in 1..TopK : Len(unique) <= k_top

\* C11 as amended: the list is cut to a fixed K = 5 (the function takes no
\* budget).  The result has min(5, number of distinct Names) entries, of
\* distinct Names, in ascending utility order, each a scored candidate of the
\* batch, and no candidate of a Name left out has a lower utility than a
\* returned one.
C11_TopFiveLowestDistinct ==
    pc = "done" =>
        /\ Len(unique) = IF Cardinality(NamesOf(candidates)) < 5
                         THEN Cardinality(NamesOf(candidates)) ELSE 5
        /\ Cardinality(NamesOf(unique)) = Len(unique)
        /\ NonDecreasing(unique)
        /\ \A i \in 1..Len(unique) : \E k \in 1..Len(ranked) : ranked[k] = unique[i]
        /\ \A k \in 1..Len(ranked) :
              ranked[k].Name \notin NamesOf(unique) =>
                 \A i \in 1..Len(unique) :
                    RLe(unique[i].Utility_Score, ranked[k].Utility_Score)

\* candidates of six Names were ranked and five strategies returned, the
\* one left out having the highest utility
C11_Witness ==
    /\ pc = "done"
    /\ Cardinality(NamesOf(ranked)) > 5
    /\ Len(unique) = 5
    /\ ranked[Len(ranked)].Name \notin NamesOf(unique)
    /\ RLt(unique[5].Utility_Score, ranked[Len(ranked)].Utility_Score)

\* C10: no two returned strategies share a Name, and the entry returned for
\* a Name is the first one of that Name in ranked order, which no candidate
\* of that Name undercuts in utility.
C10_UniqueByNameFirstKept ==
    pc = "done" =>
        /\ \A i, j \in 1..Len(unique) : unique[i].Name = unique[j].Name => i = j
        /\ \A i \in 1..Len(unique) :
              \E k \in 1..Len(ranked) :
                 /\ ranked[k] = unique[i]
                 /\ \A m \in 1..Len(ranked) :
                       ranked[m].Name = unique[i].Name =>
                          /\ k <= m
                          /\ RLe(unique[i].Utility_Score, ranked[m].Utility_Score)

\* two candidates of one Name were ranked and one of them was dropped
C10_Witness ==
    /\ pc = "done"
    /\ Len(unique) >= 2
    /\ Len(unique) < Len(ranked)

\* ------------------------------------------------------------------------
\* evaluate_strategy on hand-built plans, and calculate_utility on the batch
\* of its results
\* ------------------------------------------------------------------------
\* Monaco of the app's track_db
MonacoCircuit ==
    [n_laps |-> 78, base_lap_time |-> RInt(74), pit_loss |-> RInt(24),
     overtake_delta |-> Rat(7, 2), abrasivity |-> RInt(2)]

\* a 90 s lap, tires of 0.1 s per lap of wear and no warm-up loss, a car
\* whose lap time does not depend on its fuel
FlatCircuit ==
    [n_laps |-> 57, base_lap_time |-> RInt(90), pit_loss |-> RInt(22),
     overtake_delta |-> Rat(3, 2), abrasivity |-> RInt(3)]

FlatTires ==
    [c \in Compounds |->
        CASE c = "SOFT"   -> TireParams(RInt(0), Rat(1, 10), 20, RInt(0))
          [] c = "MEDIUM" -> TireParams(Rat(1, 2), Rat(8, 100), 30, RInt(0))
          [] c = "HARD"   -> TireParams(Rat(11, 10), Rat(4, 100), 45, RInt(0))]

FlatCar == CarParams(RInt(110), Rat(18, 10), RInt(0))

\* the engines plans are evaluated with
EvalSetups ==
    { [circuit |-> FlatCircuit, car |-> FlatCar, tires |-> FlatTires],
      [circuit |-> MonacoCircuit, car |-> CarDefault, tires |-> TireTable(<<20, 30, 45>>)] }

EvalGridChoices == {1, 20}

\* plans of one to three stints: a short stint, a stint of exactly 90% of the
\* life of its compound, a stint beyond the life of its compound; a plan
\* without stints and a plan with a compound the tire table does not have
EvalPlans ==
    { <<>>,
      <<Stint("SOFT", 5), Stint("ULTRA", 5)>>,
      <<Stint("SOFT", 5)>>,
      <<Stint("SOFT", 25)>>,
      <<Stint("HARD", 5)>>,
      <<Stint("SOFT", 5), Stint("HARD", 5)>>,
      <<Stint("SOFT", 25), Stint("SOFT", 18)>>,
      <<Stint("SOFT", 5), Stint("HARD", 5), Stint("SOFT", 18)>> }

\* "strat = engine.evaluate_strategy(...)" and the append of the result to
\* the batch; an exception of the call surfaces and nothing is appended;
\* another plan is drafted next
EvaluatePlan ==
    /\ pc = "eval"
    /\ Len(saved_strategies) < MaxSaved
    /\ raised' = RaisedByEvaluate(plan)
    /\ saved_strategies' = IF RaisedByEvaluate(plan) = "none"
                           THEN Append(saved_strategies, evaluate_strategy(plan))
                           ELSE saved_strategies
    /\ plan' \in EvalPlans
    /\ UNCHANGED <<quietv, engine, pc, gen, ranked, shown_weights, reranked, simv, stint_idx,
                   c1_time, fuel_kg, lap_in_stint, fuel_load, total_time>>

\* the engine built anew with another grid position
SetGrid ==
    /\ pc = "eval"
    /\ \E g \in EvalGridChoices \ {env.grid_position} :
          env' = [env EXCEPT !.grid_position = g]
    /\ UNCHANGED <<extv, circuit, car, tires, k_factors, pc, gen, ranked, shown_weights, rankv,
                   simv, fuelv>>

\* "engine.calculate_utility(saved_strategies)" on the evaluated batch
RankSaved ==
    /\ pc = "eval"
    /\ saved_strategies # <<>>
    /\ ranked' = calculate_utility(saved_strategies)
    /\ pc' = "ranked"
    /\ UNCHANGED <<extv, engine, gen, shown_weights, rankv, simv, fuelv>>

InitEval ==
    /\ \E setup \in EvalSetups :
          circuit = setup.circuit /\ car = setup.car /\ tires = setup.tires
    /\ env \in {[EnvDefault EXCEPT !.grid_position = g] : g \in EvalGridChoices}
    /\ k_factors = KDefault
    /\ pc = "eval"
    /\ plan \in EvalPlans
    /\ stint_idx = 0 /\ c1_time = RInt(0) /\ fuel_kg = RInt(0)
    /\ lap_in_stint = 0 /\ fuel_load = RInt(0) /\ total_time = RInt(0)
    /\ ranked = <<>>
    /\ shown_weights = ZeroWeights
    /\ GenIdle /\ RankIdle /\ SimIdle
    /\ ExtIdle

NextEval == EvaluatePlan \/ SetGrid \/ RankSaved

SpecEval == InitEval /\ [][NextEval]_vars

\* the evaluated strategies of the batch
Saved == {saved_strategies[i] : i \in 1..Len(saved_strategies)}

\* lap times of stint j of a plan: base_lap_time + base_pace
\* + (fuel_remaining - i*fuel_burn)*fuel_effect + deg_per_lap*i for the laps
\* i = 0, 1, ... of the stint, fuel_remaining being the starting fuel less
\* the burn of the laps of the stints before
LapTimesOf(stints, j) ==
    LET tire == tires[stints[j].compound]
        fuel_remaining ==
            RSub(car.fuel_start_kg,
                 RMul(RInt(LapSum(stints, j - 1)), car.fuel_burn_kg_lap))
    IN  [k \in 1..stints[j].laps |->
            RAdd(RAdd(circuit.base_lap_time, tire.base_pace),
                 RAdd(RMul(RSub(fuel_remaining, RMul(RInt(k - 1), car.fuel_burn_kg_lap)),
                           car.fuel_effect_s_kg),
                      RMul(tire.deg_per_lap, RInt(k - 1))))]

\* time of stint j: its laps, one warm-up loss, and one pit loss unless it is
\* the first stint
StintTimeOf(stints, j) ==
    RAdd(RSum(LapTimesOf(stints, j)),
         RAdd(tires[stints[j].compound].warmup_loss,
              IF j = 1 THEN RInt(0) ELSE circuit.pit_loss))

\* C16: C1 of an evaluated plan is the sum over its stints of the lap times
\* plus one warm-up loss per stint and one pit loss before every stint but
\* the first; with base 90.0, deg 0.1, fuel effect 0 and no warm-up a single
\* 5-lap SOFT stint has lap times 90.0, 90.1, 90.2, 90.3, 90.4 and C1 = 451.0.
C16_TimeIsSumOfLapsWarmupsAndPits ==
    \A e \in Saved :
        /\ e.C1_Time = RSum([j \in 1..Len(e.Stints) |-> StintTimeOf(e.Stints, j)])
        /\ (circuit = FlatCircuit /\ e.Stints = <<Stint("SOFT", 5)>>) =>
              /\ LapTimesOf(e.Stints, 1) =
                    <<RInt(90), Rat(901, 10), Rat(902, 10), Rat(903, 10), Rat(904, 10)>>
              /\ e.C1_Time = RInt(451)

\* the 5-lap SOFT stint was evaluated to 451 s, and a plan of two pit stops
\* after it
C16_Witness ==
    /\ Len(saved_strategies) = 2
    /\ saved_strategies[1].Stints = <<Stint("SOFT", 5)>>
    /\ saved_strategies[1].C1_Time = RInt(451)
    /\ Len(saved_strategies[2].Stints) = 3

\* risk ratio of stint j: (lap_count / max_life) * 100
RiskRatioOf(stints, j) == Rat(100 * stints[j].laps, tires[stints[j].compound].max_life)

\* C17: C2 of an evaluated plan is the greatest risk ratio of its stints (no
\* stint has a greater one and some stint has exactly it), not their
\* average; a single 5-lap stint on a compound of max_life 20 has C2 = 25.
C17_RiskIsMaxRatio ==
    \A e \in Saved :
        /\ \A j \in 1..Len(e.Stints) : RLe(RiskRatioOf(e.Stints, j), e.C2_Risk)
        /\ \E j \in 1..Len(e.Stints) : RiskRatioOf(e.Stints, j) = e.C2_Risk
        /\ e.Stints = <<Stint("SOFT", 5)>> => e.C2_Risk = RInt(25)

\* the 5-lap SOFT stint was evaluated to 25, and a plan of two stints of
\* unequal ratios to the greater one, 125
C17_Witness ==
    /\ \E e \in Saved : e.Stints = <<Stint("SOFT", 5)>> /\ e.C2_Risk = RInt(25)
    /\ \E e \in Saved : e.Stints = <<Stint("SOFT", 25), Stint("SOFT", 18)>>
                        /\ e.C2_Risk = RInt(125)

\* the traffic score of a plan of n_stops pit stops started from grid place
\* grid: grid/20 * (2 + n_stops * overtake_delta * 5/3), at most 10
TrafficOf(n_stops, grid) ==
    LET raw == RMul(Rat(grid, 20),
                    RAdd(RInt(2), RMul(RMul(RInt(n_stops), circuit.overtake_delta),
                                       Rat(5, 3))))
    IN  IF RLt(RInt(10), raw) THEN RInt(10) ELSE raw

\* C18: C3 never exceeds 10; the C3 of a plan is the capped score of its
\* stop count and of its grid position over the grid size 20; and C3 does not
\* decrease when, on the same circuit, the plan gets no fewer stops and the
\* grid position (any of the places 1..20) no lower a number.
C18_TrafficMonotoneAndCapped ==
    /\ \A e \in Saved :
          /\ RLe(RInt(0), e.C3_Traffic) /\ RLe(e.C3_Traffic, RInt(10))
          /\ \E g \in EvalGridChoices : e.C3_Traffic = TrafficOf(Len(e.Stints) - 1, g)
    /\ RaisedByEvaluate(plan) = "none" =>
          /\ calculate_c3_traffic_score(plan) = TrafficOf(Len(plan) - 1, env.grid_position)
          /\ \A q \in EvalPlans :
                (RaisedByEvaluate(q) = "none" /\ Len(q) >= Len(plan)) =>
                   /\ RLe(calculate_c3_traffic_score(plan), calculate_c3_traffic_score(q))
                   /\ \A g \in 1..20 :
                         g >= env.grid_position =>
                            RLe(calculate_c3_traffic_score(plan), TrafficOf(Len(q) - 1, g))

\* at Monaco, from the last grid place, a plan of fewer stops was evaluated
\* to a lower score than a plan of more stops, whose score is capped at 10
C18_Witness ==
    /\ circuit = MonacoCircuit
    /\ env.grid_position = 20
    /\ Len(saved_strategies) = 2
    /\ Len(saved_strategies[1].Stints) < Len(saved_strategies[2].Stints)
    /\ RLt(saved_strategies[1].C3_Traffic, saved_strategies[2].C3_Traffic)
    /\ saved_strategies[2].C3_Traffic = RInt(10)
    /\ saved_strategies[2].C3_Traffic = TrafficOf(2, 20)

\* unused life margin of stint j: max(0, 0.9*max_life - lap_count)
MarginOf(stints, j) ==
    LET tenths == 9 * tires[stints[j].compound].max_life - 10 * stints[j].laps
    IN  IF tenths > 0 THEN Rat(tenths, 10) ELSE RInt(0)

\* C19: C4 of an evaluated plan is the average margin of its stints, times
\* 10/15, at most 10; so 0 <= C4 <= 10, also for a plan with a stint beyond
\* 90% of the life of its compound.
C19_FlexIsScaledAverageMargin ==
    \A e \in Saved :
        LET margins == [j \in 1..Len(e.Stints) |-> MarginOf(e.Stints, j)]
            scaled  == RMul(RDiv(RSum(margins), RInt(Len(e.Stints))), Rat(10, 15))
        IN  /\ e.C4_Flex = (IF RLt(RInt(10), scaled) THEN RInt(10) ELSE scaled)
            /\ RLe(RInt(0), e.C4_Flex)
            /\ RLe(e.C4_Flex, RInt(10))

\* a plan whose only stint lies beyond the life of its compound was evaluated
\* to 0, and a plan of wide margins to the cap of 10
C19_Witness ==
    /\ \E e \in Saved : e.Stints = <<Stint("SOFT", 25)>> /\ e.C4_Flex = RInt(0)
    /\ \E e \in Saved : e.Stints = <<Stint("HARD", 5)>> /\ e.C4_Flex = RInt(10)

\* C20: after the ranking of a non-empty batch of evaluated strategies each
\* of the four Normalized_Scores of every member lies in 0..10.
C20_NormalizedScoresInRange ==
    pc = "ranked" =>
        \A i \in 1..Len(ranked) :
           \A x \in {ranked[i].Normalized_Scores.C1, ranked[i].Normalized_Scores.C2,
                     ranked[i].Normalized_Scores.C3, ranked[i].Normalized_Scores.C4} :
              RLe(RInt(0), x) /\ RLe(x, RInt(10))

\* two strategies of different times were ranked, the slower normalized to
\* 10; one has a risk above 100 and the risk score 10
C20_Witness ==
    /\ pc = "ranked"
    /\ Len(ranked) = 2
    /\ \E i \in 1..2 : ranked[i].Normalized_Scores.C1 = RInt(10)
    /\ \E i \in 1..2 : RLt(RInt(100), ranked[i].C2_Risk)
                         /\ ranked[i].Normalized_Scores.C2 = RInt(10)

\* C22: evaluating a plan without stints ends with an error (the ValueError
\* of max() on no ratios), never with an evaluated strategy of zeroed
\* criteria: nothing is appended to the batch, and no member of the batch
\* has an empty plan.
C22_EmptyPlanFails ==
    /\ [](\A e \in Saved : e.Stints # <<>>)
    /\ [][(pc = "eval" /\ pc' = "eval" /\ env' = env /\ plan = <<>>) =>
              (raised' = "ValueError" /\ saved_strategies' = saved_strategies)]_vars

\* after one plan was evaluated into the batch the evaluation of the plan
\* without stints raised, and the batch still has its one member
C22_Witness ==
    /\ pc = "eval"
    /\ raised = "ValueError"
    /\ Len(saved_strategies) = 1

\* a is no worse than b on every criterion: the three costs no higher, the
\* flexibility no lower
Dominates(a, b) ==
    /\ RLe(a.C1_Time, b.C1_Time)
    /\ RLe(a.C2_Risk, b.C2_Risk)
    /\ RLe(a.C3_Traffic, b.C3_Traffic)
    /\ RLe(b.C4_Flex, a.C4_Flex)

\* C30: in a ranked batch a strategy that is no worse than another on every
\* criterion has a utility no higher than the other's, so it is never
\* ranked strictly after it; the weights are those of non-negative inputs.
C30_RankingRespectsDominance ==
    pc = "ranked" =>
        /\ \A w \in {calculate_dynamic_weights.alpha_1, calculate_dynamic_weights.alpha_2,
                      calculate_dynamic_weights.alpha_3, calculate_dynamic_weights.alpha_4} :
              RLe(RInt(0), w)
        /\ \A i, j \in 1..Len(ranked) :
              Dominates(ranked[i], ranked[j]) =>
                 /\ RLe(ranked[i].Utility_Score, ranked[j].Utility_Score)
                 /\ RLt(ranked[i].Utility_Score, ranked[j].Utility_Score) => i < j

\* the first of two ranked strategies is faster, safer and more flexible
\* than the second, and has the strictly lower utility
C30_Witness ==
    /\ pc = "ranked"
    /\ Len(ranked) = 2
    /\ Dominates(ranked[1], ranked[2])
    /\ RLt(ranked[1].C1_Time, ranked[2].C1_Time)
    /\ RLt(ranked[1].C2_Risk, ranked[2].C2_Risk)
    /\ RLt(ranked[2].C4_Flex, ranked[1].C4_Flex)
    /\ RLt(ranked[1].Utility_Score, ranked[2].Utility_Score)

\* ------------------------------------------------------------------------
\* Lookups of compound names: evaluate_strategy and run_strategy on plans
\* that name a compound the tables do not have
\* ------------------------------------------------------------------------
\* plans for run_strategy: known names in upper and lower case, an unknown
\* name in the first stint, in the second, and in a second stint the race
\* may be too short to reach
LookupPlans ==
    { << <<"SOFT", 2>> >>,
      << <<"soft", 2>> >>,
      << <<"ULTRA", 2>> >>,
      << <<"HARD", 1>>, <<"MEDIUM", 2>> >>,
      << <<"SOFT", 2>>, <<"ULTRA", 1>> >>,
      << <<"ULTRA", 1>>, <<"SOFT", 2>> >> }

\* race distances handed to run_strategy with these plans
LookupLaps == {2, 3}

\* either a session of evaluations by the default engine or one call of
\* run_strategy
InitLookup ==
    /\ circuit = MonacoCircuit
    /\ car = CarDefault
    /\ tires = TireTable(<<20, 30, 45>>)
    /\ env = EnvDefault
    /\ k_factors = KDefault
    /\ \/ pc = "eval" /\ plan \in EvalPlans /\ SimIdle
       \/ /\ pc = "sim" /\ plan = <<>>
          /\ strategy_plan \in LookupPlans
          /\ total_laps \in LookupLaps
          /\ race_times = <<>> /\ cumulative_time = RInt(0) /\ current_lap = 0
          /\ stint_sum = RInt(0) /\ stints_run = 0
    /\ stint_idx = 0 /\ c1_time = RInt(0) /\ fuel_kg = RInt(0)
    /\ lap_in_stint = 0 /\ fuel_load = RInt(0) /\ total_time = RInt(0)
    /\ ranked = <<>>
    /\ shown_weights = ZeroWeights
    /\ GenIdle /\ RankIdle
    /\ ExtIdle

NextLookup == EvaluatePlan \/ RunStint

SpecLookup == InitLookup /\ [][NextLookup]_vars

\* the stints of the plan run_strategy has simulated so far
StintsRun == {strategy_plan[i] : i \in 1..stints_run}

\* the oracle has a profile for the name, whatever its case
KnownToOracle(name) == Upper(name) \in {"SOFT", "MEDIUM", "HARD"}

\* C21 as claimed: evaluate_strategy returns no result for a plan with an
\* unknown compound, and run_strategy never returns lap times for a plan
\* that names an unknown compound in any of its stints.
C21_AnyUnknownCompoundRaises ==
    /\ \A e \in Saved : \A st \in StintsOf(e) : st.compound \in Compounds
    /\ pc = "sim_done" =>
          \A i \in 1..Len(strategy_plan) : KnownToOracle(strategy_plan[i][1])

\* C21 as amended: a lookup of an unknown compound raises and is never
\* answered by a default. evaluate_strategy looks up every stint: a plan
\* with an unknown compound ends with KeyError and nothing is returned.
\* run_strategy looks up the stints it runs: every stint it has lap times
\* for has a known compound, and a stint with an unknown one, once reached,
\* ends the call with ValueError before any lap time of it is produced (a
\* stint after the race distance is covered is never looked up).
C21_LookedUpUnknownCompoundRaises ==
    /\ [](/\ \A e \in Saved : \A st \in StintsOf(e) : st.compound \in Compounds
          /\ \A st \in StintsRun : KnownToOracle(st[1])
          /\ pc = "sim_raised" =>
                /\ raised = "ValueError"
                /\ ~KnownToOracle(strategy_plan[stints_run + 1][1])
                /\ Len(race_times) = current_lap)
    /\ [][/\ (pc = "eval" /\ \E i \in 1..Len(plan) : plan[i].compound \notin Compounds) =>
                (raised' = "KeyError" /\ saved_strategies' = saved_strategies)
          /\ (pc = "sim" /\ ~KnownToOracle(strategy_plan[stints_run + 1][1])) =>
                (pc' = "sim_raised" /\ raised' = "ValueError"
                 /\ race_times' = race_times)]_vars

\* run_strategy produced the lap times of a first stint and raised on the
\* unknown compound of the second
C21_Witness ==
    /\ pc = "sim_raised"
    /\ raised = "ValueError"
    /\ stints_run = 1
    /\ Len(race_times) = 2

\* ------------------------------------------------------------------------
\* StrategyMCDA.find_optimal_strategy: the exhaustive search
\* ------------------------------------------------------------------------
\* one pass of the lap loop of calculate_metrics: the time of the lap of
\* index lap of a stint begun with the fuel load fuel
LegacyLapTime(spec, fuel, lap) ==
    LET fuel_burn == RDiv(RInt(110), RInt(total_laps))
        fuel_penalty == RMul(RSub(fuel, RMul(RInt(lap), fuel_burn)), env_vars.fuel_effect)
        tire_penalty == RMul(RInt(lap), spec.deg)
    IN  RAdd(RAdd(RAdd(env_vars.base_time, spec.pace_advantage), fuel_penalty),
             tire_penalty)

\* the sum of the times of the laps lo..hi-1 of the stint (the laps are
\* added by halves of the range)
RECURSIVE LegacyLapsTime(_, _, _, _)
LegacyLapsTime(spec, fuel, lo, hi) ==
    IF hi <= lo THEN RInt(0)
    ELSE IF hi = lo + 1 THEN LegacyLapTime(spec, fuel, lo)
    ELSE LET mid == (lo + hi) \div 2
         IN  RAdd(LegacyLapsTime(spec, fuel, lo, mid), LegacyLapsTime(spec, fuel, mid, hi))

\* the lap loop over the n laps of one stint
LegacyStintTime(spec, fuel, n) == LegacyLapsTime(spec, fuel, 0, n)

\* current_time after the first idx stints: the pit cost is added when laps
\* were run before the stint
RECURSIVE LegacyTimeUpto(_, _)
LegacyTimeUpto(stints, idx) ==
    IF idx = 0 THEN RInt(0)
    ELSE LET before == LapSum(stints, idx - 1)
             fuel_burn == RDiv(RInt(110), RInt(total_laps))
             fuel == RSub(LegacyFuelLoad, RMul(RInt(before), fuel_burn))
             pit == IF before > 0 THEN env_vars.pit_cost ELSE RInt(0)
         IN  RAdd(RAdd(LegacyTimeUpto(stints, idx - 1), pit),
                  LegacyStintTime(tyre_specs[stints[idx].compound], fuel,
                                  stints[idx].laps))

\* calculate_metrics(stints, env_vars); LapTrace, the list of the lap times
\* summed into TotalTime, is not kept
calculate_metrics(stints) ==
    LET stops == Len(stints) - 1
        c2_safety_scores ==
            [i \in 1..Len(stints) |->
                RMul(RDiv(RInt(stints[i].laps), RInt(tyre_specs[stints[i].compound].life)),
                     RInt(100))]
        traffic == RMin(RInt(10), RAdd(RMul(RInt(env_vars.grid_pos), Rat(1, 10)),
                                       RMul(RInt(stops), Rat(12, 10))))
        flex == 10 - (stops * 2) - (IF stints[1].compound = "SOFT" THEN 2 ELSE 0)
    IN  [TotalTime |-> LegacyTimeUpto(stints, Len(stints)),
         MaxRisk |-> IF c2_safety_scores # <<>> THEN RMaxSeq(c2_safety_scores) ELSE RInt(0),
         TrafficScore |-> traffic,
         Flexibility |-> IF flex > 0 THEN flex ELSE 0,
         StintDef |-> stints]

\* every candidate kept, whatever its risk
PassesRiskAlways(m) == TRUE

\* "if metrics['MaxRisk'] < 98.0"
PassesRisk(m) == RLt(m.MaxRisk, RInt(98))

\* the combo-th element of itertools.product(compounds, repeat=2) and of
\* itertools.product(compounds, repeat=3)
ProductOfTwo(k) == <<compounds[((k - 1) \div 3) + 1], compounds[((k - 1) % 3) + 1]>>

ProductOfThree(k) ==
    <<compounds[((k - 1) \div 9) + 1], compounds[(((k - 1) \div 3) % 3) + 1],
      compounds[((k - 1) % 3) + 1]>>

\* "range(int(laps*0.2), int(laps*0.8))": its first value and its bound
P1First == RTrunc(RMul(RInt(total_laps), Rat(2, 10)))

P1Bound == RTrunc(RMul(RInt(total_laps), Rat(8, 10)))

\* {**metrics, "Name": ...}
Named(m, name) ==
    [Name |-> name, TotalTime |-> m.TotalTime, MaxRisk |-> m.MaxRisk,
     TrafficScore |-> m.TrafficScore, Flexibility |-> m.Flexibility,
     StintDef |-> m.StintDef]

\* one iteration of the inner loop of the "1-STOP Generator"
OneStopCandidate ==
    /\ pc = "legacy_one_stop"
    /\ LET c == ProductOfTwo(combo)
           s == <<Stint(c[1], p1), Stint(c[2], total_laps - p1)>>
           skipped == c[1] = c[2] /\ require_compound_change
       IN  /\ metrics' = IF skipped THEN metrics ELSE calculate_metrics(s)
           /\ valid_strategies' =
                 IF ~skipped /\ PassesRisk(calculate_metrics(s))
                 THEN Append(valid_strategies,
                             Named(calculate_metrics(s),
                                   <<"AI 1-Stop", FirstLetter(c[1]), FirstLetter(c[2])>>))
                 ELSE valid_strategies
    /\ IF combo < 9
       THEN combo' = combo + 1 /\ p1' = p1 /\ pc' = pc
       ELSE /\ combo' = 1
            /\ p1' = p1 + 1
            /\ pc' = IF p1 + 1 < P1Bound THEN pc ELSE "legacy_two_stop"
    /\ UNCHANGED <<raised, require_compound_change, best, engine, gen, ranked,
                   shown_weights, rankv, simv, fuelv, montev, appv>>

\* one iteration of the loop of the "2-STOP Generator"
TwoStopCandidate ==
    /\ pc = "legacy_two_stop"
    /\ LET c == ProductOfThree(combo)
           s_len == RTrunc(RDiv(RInt(total_laps), RInt(3)))
           s == <<Stint(c[1], s_len), Stint(c[2], s_len),
                  Stint(c[3], total_laps - (s_len * 2))>>
       IN  /\ metrics' = calculate_metrics(s)
           /\ valid_strategies' =
                 IF PassesRisk(calculate_metrics(s))
                 THEN Append(valid_strategies,
                             Named(calculate_metrics(s),
                                   <<"AI 2-Stop", FirstLetter(c[1]), FirstLetter(c[2]),
                                     FirstLetter(c[3])>>))
                 ELSE valid_strategies
    /\ IF combo < 27
       THEN combo' = combo + 1 /\ pc' = pc
       ELSE combo' = combo /\ pc' = "legacy_return"
    /\ UNCHANGED <<raised, require_compound_change, p1, best, engine, gen, ranked,
                   shown_weights, rankv, simv, fuelv, montev, appv>>

\* list.sort(key=TotalTime): ascending and stable
RECURSIVE InsertByTime(_, _)
InsertByTime(sorted, x) ==
    IF sorted = <<>> THEN <<x>>
    ELSE IF RLt(x.TotalTime, sorted[Len(sorted)].TotalTime)
         THEN Append(InsertByTime(SubSeq(sorted, 1, Len(sorted) - 1), x),
                     sorted[Len(sorted)])
         ELSE Append(sorted, x)

RECURSIVE SortedByTime(_)
SortedByTime(vs) ==
    IF vs = <<>> THEN <<>>
    ELSE InsertByTime(SortedByTime(SubSeq(vs, 1, Len(vs) - 1)), vs[Len(vs)])

\* "if not valid_strategies: return None", the sort, "return valid_strategies[0]"
ReturnFastest ==
    /\ pc = "legacy_return"
    /\ valid_strategies' = SortedByTime(valid_strategies)
    /\ best' = IF valid_strategies = <<>> THEN None ELSE valid_strategies'[1]
    /\ pc' = "legacy_done"
    /\ UNCHANGED <<raised, require_compound_change, p1, combo, metrics, engine, gen,
                   ranked, shown_weights, rankv, simv, fuelv, montev, appv>>

\* race distances the search is run on
LegacyLaps == {30, 57}

\* the call of find_optimal_strategy(env_vars) begun: the loops not yet entered
InitLegacy ==
    /\ circuit = CircuitParams(57)
    /\ tires = TireTable(<<20, 30, 45>>)
    /\ car = CarDefault
    /\ env = EnvDefault
    /\ k_factors = KDefault
    /\ pc = "legacy_one_stop"
    /\ total_laps \in LegacyLaps
    /\ require_compound_change \in BOOLEAN
    /\ p1 = P1First
    /\ combo = 1
    /\ metrics = None
    /\ valid_strategies = <<>>
    /\ best = None
    /\ raised = "none"
    /\ strategy_plan = <<>> /\ race_times = <<>> /\ cumulative_time = RInt(0)
    /\ current_lap = 0 /\ stint_sum = RInt(0) /\ stints_run = 0
    /\ ranked = <<>>
    /\ shown_weights = ZeroWeights
    /\ GenIdle /\ RankIdle /\ FuelIdle
    /\ MonteIdle /\ AppIdle

NextLegacy == OneStopCandidate \/ TwoStopCandidate \/ ReturnFastest

SpecLegacy == InitLegacy /\ [][NextLegacy]_vars

\* a stint of the plan is longer than the life of its compound
BeyondLife(stints) ==
    \E i \in 1..Len(stints) : stints[i].laps > tyre_specs[stints[i].compound].life

\* the plan runs one compound on all its stints
OneCompound(stints) == Cardinality({stints[i].compound : i \in 1..Len(stints)}) < 2

\* C24: the strategy the exhaustive search returns has no stint beyond the
\* max_life of its compound and does not run one single compound on all its
\* stints: stated for the calls whose env_vars require a compound change.
C24_ReturnedFeasibleTwoCompounds ==
    (pc = "legacy_done" /\ best # None /\ require_compound_change) =>
        ~BeyondLife(best.StintDef) /\ ~OneCompound(best.StintDef)

\* ------------------------------------------------------------------------
\* The two generators: generate_optimal_strategies and find_optimal_strategy
\* ------------------------------------------------------------------------
SpecGenerators == (Init \/ InitLegacy) /\ [][Next \/ NextLegacy]_vars

\* the plans the stochastic generator has called evaluate_strategy on: each
\* call's result is appended to candidates
EvaluatedPlans == {candidates[i].Stints : i \in 1..Len(candidates)}

\* a stint of the plan is longer than the max_life of its compound in the
\* engine's tire table
BeyondMaxLife(stints) ==
    \E i \in 1..Len(stints) : stints[i].laps > tires[stints[i].compound].max_life

NSims == 2

\* total_laps of the calls
MonteLaps == 4

\* most strategies of one call
MaxStrategies == 3

\* np.random.normal of a run, the same on every lap of the run
MonteNoise == {RInt(0), Rat(1, 5)}

\* plans of known compounds over the race distance
MontePlans ==
    { << <<"SOFT", 2>>, <<"HARD", 2>> >>,
      << <<"MEDIUM", 4>> >>,
      << <<"SOFT", 1>>, <<"MEDIUM", 1>>, <<"HARD", 2>> >> }

StrategyNames == <<"1-Stop", "No-Stop", "2-Stop">>

\* run_strategy after the first n stints of the plan: the loop ends once
\* the race distance is covered
RECURSIVE run_strategy_upto(_, _, _, _)
run_strategy_upto(strategy, laps, noise, n) ==
    IF n = 0 THEN [current_lap |-> 0, cumulative_time |-> RInt(0)]
    ELSE LET before == run_strategy_upto(strategy, laps, noise, n - 1)
         IN  IF before.current_lap >= laps THEN before
             ELSE LET i == n - 1
                      stint_length ==
                          IF before.current_lap + strategy[n][2] > laps
                          THEN laps - before.current_lap
                          ELSE strategy[n][2]
                      simulated == simulate_stint(strategy[n][1], stint_length,
                                                  [k \in 1..stint_length |-> noise])
                      stint_times == IF i > 0 THEN WithPitOnFirstLap(simulated)
                                              ELSE simulated
                      pit == IF i > 0 THEN PIT_LOSS ELSE RInt(0)
                  IN  [current_lap |-> before.current_lap + stint_length,
                       cumulative_time |->
                           RAdd(RAdd(before.cumulative_time, pit), RSum(stint_times))]

\* "_, total_time = self.run_strategy(plan, total_laps)"
run_strategy_time(strategy, laps, noise) ==
    run_strategy_upto(strategy, laps, noise, Len(strategy)).cumulative_time

\* np.mean
Mean(xs) == RDiv(RSum(xs), RInt(Len(xs)))

\* strategies the outer loop has been through
StrategiesDone == Cardinality(DOMAIN mc_results)

\* one round of the loop over strategies.items(): n_sims runs of the plan
\* and its entry of results (p25, p75 and std_dev are not kept here)
SimulateStrategy ==
    /\ pc = "monte"
    /\ StrategiesDone < Len(mc_strategies)
    /\ LET strat_name == mc_strategies[StrategiesDone + 1][1]
           strat_plan == mc_strategies[StrategiesDone + 1][2]
       IN  \E noise \in [1..NSims -> MonteNoise] :
              LET totals == [j \in 1..NSims |->
                                run_strategy_time(strat_plan, total_laps, noise[j])]
              IN  /\ sim_totals' = totals
                  /\ mc_results' =
                        [name \in DOMAIN mc_results \cup {strat_name} |->
                            IF name = strat_name
                            THEN [mean_time |-> Mean(totals), win_prob |-> 0]
                            ELSE mc_results[name]]
    /\ UNCHANGED <<raised, legacyv, appv, mc_strategies, engine, pc, gen, ranked,
                   shown_weights, rankv, simv, fuelv>>

\* the key of the largest mean_time
best_strat_slowest ==
    LET order == {i \in 1..Len(mc_strategies) :
                     \A j \in 1..Len(mc_strategies) :
                         ~RLt(mc_results[mc_strategies[i][1]].mean_time,
                              mc_results[mc_strategies[j][1]].mean_time)}
    IN  mc_strategies[CHOOSE i \in order : \A j \in order : i <= j][1]

\* "min(results, key=lambda x: results[x]['mean_time'])": the first key, in
\* the order of insertion, of the least mean_time
best_strat ==
    LET order == {i \in 1..Len(mc_strategies) :
                     \A j \in 1..Len(mc_strategies) :
                         ~RLt(mc_results[mc_strategies[j][1]].mean_time,
                              mc_results[mc_strategies[i][1]].mean_time)}
    IN  mc_strategies[CHOOSE i \in order : \A j \in order : i <= j][1]

\* "results[best_strat]['is_recommended'] = True"
Recommended(entry) ==
    [mean_time |-> entry.mean_time, win_prob |-> entry.win_prob, is_recommended |-> TRUE]

\* what follows the loop: min() of an empty dict raises ValueError
RecommendBest ==
    /\ pc = "monte"
    /\ StrategiesDone = Len(mc_strategies)
    /\ IF mc_results = EmptyDict
       THEN /\ raised' = "ValueError"
            /\ pc' = "monte_raised"
            /\ mc_results' = mc_results
       ELSE /\ mc_results' = [mc_results EXCEPT ![best_strat] = Recommended(@)]
            /\ pc' = "monte_done"
            /\ raised' = raised
    /\ UNCHANGED <<legacyv, appv, mc_strategies, sim_totals, engine, gen, ranked,
                   shown_weights, rankv, simv, fuelv>>

InitMonte ==
    /\ circuit = CircuitParams(57)
    /\ tires = TireTable(<<20, 30, 45>>)
    /\ car = CarDefault
    /\ env = EnvDefault
    /\ k_factors = KDefault
    /\ pc = "monte"
    /\ mc_strategies \in
          UNION {{[i \in 1..n |-> <<StrategyNames[i], f[i]>>] : f \in [1..n -> MontePlans]} :
                    n \in 0..MaxStrategies}
    /\ total_laps = MonteLaps
    /\ sim_totals = <<>>
    /\ mc_results = EmptyDict
    /\ strategy_plan = <<>> /\ race_times = <<>> /\ cumulative_time = RInt(0)
    /\ current_lap = 0 /\ stint_sum = RInt(0) /\ stints_run = 0
    /\ ranked = <<>>
    /\ shown_weights = ZeroWeights
    /\ GenIdle /\ RankIdle /\ FuelIdle
    /\ raised = "none" /\ LegacyIdle /\ AppIdle

NextMonte == SimulateStrategy \/ RecommendBest

SpecMonte == InitMonte /\ [][NextMonte]_vars

\* the keys of results whose entry has is_recommended set to True
RecommendedKeys ==
    {name \in DOMAIN mc_results :
        /\ "is_recommended" \in DOMAIN mc_results[name]
        /\ mc_results[name].is_recommended = TRUE}

\* exactly one strategy is recommended, and no strategy has a lower mean
OneRecommendedOfLowestMean ==
    /\ Cardinality(RecommendedKeys) = 1
    /\ \A best_key \in RecommendedKeys : \A name \in DOMAIN mc_results :
          ~RLt(mc_results[name].mean_time, mc_results[best_key].mean_time)

\* C23: for a non-empty dict of strategies the call marks exactly one
\* strategy as recommended, the one of the lowest mean total time, and
\* every entry of the result carries the flag is_recommended as a boolean.
C23_OneRecommendedFlagOnAll ==
    pc = "monte_done" =>
        /\ OneRecommendedOfLowestMean
        /\ \A name \in DOMAIN mc_results :
              /\ "is_recommended" \in DOMAIN mc_results[name]
              /\ mc_results[name].is_recommended \in BOOLEAN

\* C23 as amended: for a non-empty dict of strategies the result has one
\* entry per strategy; exactly one entry carries is_recommended, set to
\* True: the first one, in the order of the dict, of the lowest mean total
\* time. The other entries have no key is_recommended at all.
C23_OneRecommendedOthersUnflagged ==
    pc = "monte_done" =>
        /\ DOMAIN mc_results = {mc_strategies[i][1] : i \in 1..Len(mc_strategies)}
        /\ OneRecommendedOfLowestMean
        /\ \A i \in 1..Len(mc_strategies) :
              LET entry == mc_results[mc_strategies[i][1]]
              IN  IF mc_strategies[i][1] \in RecommendedKeys
                  THEN \A j \in 1..(i - 1) :
                          RLt(entry.mean_time, mc_results[mc_strategies[j][1]].mean_time)
                  ELSE "is_recommended" \notin DOMAIN entry

\* three strategies were simulated, the second one has the lowest mean and
\* is the recommended one, the third one has the same mean
C23_Witness ==
    /\ pc = "monte_done"
    /\ Len(mc_strategies) = 3
    /\ RecommendedKeys = {mc_strategies[2][1]}
    /\ mc_results[mc_strategies[3][1]].mean_time = mc_results[mc_strategies[2][1]].mean_time
    /\ RLt(mc_results[mc_strategies[2][1]].mean_time,
           mc_results[mc_strategies[1][1]].mean_time)

\* ------------------------------------------------------------------------
\* app.py, tab "STRATEGY": the saved strategies over the runs of the script
\* ------------------------------------------------------------------------
\* u_laps of the page
AppLaps == 12

\* values of the sliders k_safe, k_traf, k_rob
AppKChoices == {KDefault, KFactors(RInt(5), Rat(1, 10), RInt(1))}

\* values of the inputs "Compound" and "Laps" of the Strategy Builder
AppCompounds == {"SOFT", "HARD"}

AppStintLaps == {4, 8}

\* most stints drafted before the draft is saved or cleared
MaxDraft == 2

\* plans the 1-stop loop of the generator can keep on this page
AppGenPlans ==
    {<<Stint(c[1], OneStopLaps(4)[1]), Stint(c[2], OneStopLaps(4)[2])>> :
        c \in {cc \in {<<"SOFT", "MEDIUM">>, <<"MEDIUM", "HARD">>} :
                  ~ExceedsLife(cc[1], OneStopLaps(4)[1])
                  /\ ~ExceedsLife(cc[2], OneStopLaps(4)[2])}}

\* what generate_optimal_strategies can return: the unique top of the ranked
\* candidates, for the candidates lists of up to two kept candidates
GeneratedBest ==
    {UniqueTop(calculate_utility([i \in 1..Len(f) |-> evaluate_strategy(f[i])])) :
        f \in UNION {[1..n -> AppGenPlans] : n \in 0..2}}

\* the list left as it is on load
RerankOnLoadSkipped(saved) == saved

\* "if st.session_state.saved_strategies: ... = engine.calculate_utility(...)"
RerankOnLoad(saved) == IF saved # <<>> THEN calculate_utility(saved) ELSE saved

\* "tot = sum(s['laps'] for s in st.session_state.user_stints)"
DraftTotal == LapSum(plan, Len(plan))

\* a run of the script starts: the engine is built from the widgets
SetWidgets ==
    /\ pc = "app_widgets"
    /\ k_factors' \in AppKChoices
    /\ pc' = "app_load"
    /\ UNCHANGED <<extv, circuit, car, env, tires, gen, ranked, shown_weights, rankv,
                   simv, fuelv>>

\* "CRITICAL: Always re-calculate utility on load"
LoadPage ==
    /\ pc = "app_load"
    /\ saved_strategies' = RerankOnLoad(saved_strategies)
    /\ pc' = "app_builder"
    /\ UNCHANGED <<extv, engine, gen, ranked, shown_weights, reranked, simv, fuelv>>

\* button "Add Stint"; the run goes on to the Strategy Matrix
AddStint ==
    /\ pc = "app_builder"
    /\ Len(plan) < MaxDraft
    /\ \E s_comp \in AppCompounds, s_laps \in AppStintLaps :
          plan' = Append(plan, Stint(s_comp, s_laps))
    /\ pc' = "app_matrix"
    /\ UNCHANGED <<extv, engine, gen, ranked, shown_weights, rankv, simv, stint_idx,
                   c1_time, fuel_kg, lap_in_stint, fuel_load, total_time>>

\* button "Clear Draft"; the run goes on to the Strategy Matrix
ClearDraft ==
    /\ pc = "app_builder"
    /\ plan # <<>>
    /\ plan' = <<>>
    /\ pc' = "app_matrix"
    /\ UNCHANGED <<extv, engine, gen, ranked, shown_weights, rankv, simv, stint_idx,
                   c1_time, fuel_kg, lap_in_stint, fuel_load, total_time>>

\* button "SAVE PLAN", offered when the draft covers the race distance:
\* evaluate, append, rank the whole list, empty the draft, st.rerun()
SavePlan ==
    /\ pc = "app_builder"
    /\ plan # <<>>
    /\ DraftTotal = circuit.n_laps
    /\ Len(saved_strategies) < MaxSaved
    /\ saved_strategies' =
          calculate_utility(Append(saved_strategies, evaluate_strategy(plan)))
    /\ plan' = <<>>
    /\ pc' = "app_load"
    /\ UNCHANGED <<extv, engine, gen, ranked, shown_weights, reranked, simv, stint_idx,
                   c1_time, fuel_kg, lap_in_stint, fuel_load, total_time>>

\* button "GENERATE OPTIMAL": extend by what the generator returns, rank
\* the whole list, st.rerun()
GenerateOptimal ==
    /\ pc = "app_builder"
    /\ \E generated \in GeneratedBest :
          /\ Len(saved_strategies) + Len(generated) <= MaxSaved
          /\ saved_strategies' = calculate_utility(saved_strategies \o generated)
    /\ pc' = "app_load"
    /\ UNCHANGED <<extv, engine, gen, ranked, shown_weights, reranked, simv, fuelv>>

\* the Strategy Matrix of a run that no button has restarted:
\* "sorted_strats = sorted(saved_strategies, key=Utility_Score)"
ShowMatrix ==
    /\ pc \in {"app_builder", "app_matrix"}
    /\ sorted_strats' = IF saved_strategies # <<>>
                        THEN SortedByUtility(saved_strategies)
                        ELSE <<>>
    /\ pc' = "app_shown"
    /\ UNCHANGED <<raised, legacyv, montev, engine, gen, ranked, shown_weights, rankv,
                   simv, fuelv>>

\* button "Clear Matrix", offered next to a non-empty matrix: st.rerun();
\* the locals of the run that ends are gone
ClearMatrix ==
    /\ pc = "app_shown"
    /\ saved_strategies # <<>>
    /\ saved_strategies' = <<>>
    /\ sorted_strats' = <<>>
    /\ pc' = "app_load"
    /\ UNCHANGED <<raised, legacyv, montev, engine, gen, ranked, shown_weights, reranked,
                   simv, fuelv>>

\* the user touches a widget or a button: the script runs again, the locals
\* of the run that ends are gone
Interact ==
    /\ pc = "app_shown"
    /\ sorted_strats' = <<>>
    /\ pc' = "app_widgets"
    /\ UNCHANGED <<raised, legacyv, montev, engine, gen, ranked, shown_weights, rankv,
                   simv, fuelv>>

InitApp ==
    /\ circuit = CircuitParams(AppLaps)
    /\ tires = TireTable(<<20, 30, 45>>)
    /\ car = CarDefault
    /\ env = EnvDefault
    /\ k_factors = KDefault
    /\ pc = "app_widgets"
    /\ ranked = <<>>
    /\ shown_weights = ZeroWeights
    /\ GenIdle /\ RankIdle /\ SimIdle /\ FuelIdle
    /\ ExtIdle

NextApp ==
    \/ SetWidgets \/ LoadPage \/ AddStint \/ ClearDraft \/ SavePlan
    \/ GenerateOptimal \/ ShowMatrix \/ ClearMatrix \/ Interact

SpecApp == InitApp /\ [][NextApp]_vars

\* C29: whenever the Strategy Matrix is shown, after any sequence of Save
\* Plan, Generate Optimal and reruns with changed weights, its rows are the
\* saved strategies with the Utility_Score and the Normalized_Scores that
\* calculate_utility computes from the whole current list with the current
\* engine; no row keeps the placeholder of evaluate_strategy or a utility
\* of another batch.
C29_ShownUtilitiesOfCurrentBatch ==
    pc = "app_shown" =>
        /\ sorted_strats = calculate_utility(saved_strategies)
        /\ saved_strategies = calculate_utility(saved_strategies)

\* the matrix shows a saved plan next to a generated one, ranked with
\* weights other than those they were saved with, and their utilities differ
C29_Witness ==
    /\ pc = "app_shown"
    /\ k_factors # KDefault
    /\ Len(sorted_strats) = 2
    /\ sorted_strats[1].Stints \in AppGenPlans
    /\ sorted_strats[2].Stints \notin AppGenPlans
    /\ sorted_strats[1].Utility_Score # sorted_strats[2].Utility_Score
    /\ sorted_strats[2].Utility_Score # RInt(0)

====
